---- MODULE Spec2Model ----
(***************************************************************************)
(* A model of the authentication core of taxgenius-png:                    *)
(*   src/src/services/AuthService.ts  (session manager, token issuer,      *)
(*                                     rate limiter, password hasher)      *)
(*   src/src/services/EventBus.ts     (event notifier)                     *)
(*                                                                         *)
(* Time is counted in ticks; TicksPerSecond ticks make one second, so      *)
(* that Math.floor(ms / 1000) of generateTokens is a real rounding.        *)
(* Strings the code inspects (emails, passwords, TINs) are sequences of    *)
(* one-character strings.  An optional value (T | null | undefined) is a   *)
(* sequence of length 0 or 1.                                              *)
(***************************************************************************)
EXTENDS Integers, Sequences, FiniteSets, TLC

(***************************************************************************)
(* Bounds of the model                                                     *)
(***************************************************************************)
TicksPerSecond == 2
MaxUsers == 2
MaxClockSteps == 2
MaxIds == 12
MaxPending == 2
MaxResetRequests == 2
MaxListeners == 3

(***************************************************************************)
(* Program constants (AuthService.ts:38-45, 52, 721, 259, 859)             *)
(***************************************************************************)
SECOND == TicksPerSecond
MINUTE == 60 * SECOND
HOUR == 60 * MINUTE
DAY == 24 * HOUR
ACCESS_TOKEN_EXPIRY == 60 * 60 * SECOND
REFRESH_TOKEN_EXPIRY == 7 * 24 * 60 * 60 * SECOND
REMEMBER_ME_EXPIRY == 30 * 24 * 60 * 60 * SECOND
MAX_LOGIN_ATTEMPTS == 5
LOCKOUT_DURATION == 15 * 60 * SECOND
CHECK_INTERVAL == 60 * SECOND
REFRESH_HORIZON == 5 * 60 * SECOND
RESET_TOKEN_EXPIRY == 24 * 60 * 60 * SECOND
VERIFICATION_TOKEN_EXPIRY == 48 * 60 * 60 * SECOND

MSG_RATE_LIMITED == "Too many login attempts. Please try again later."
MSG_INVALID_CREDENTIALS == "Invalid email or password"
MSG_EMAIL_TAKEN == "Email is already registered"
MSG_MISSING_FIELDS == "Missing required fields"
MSG_INVALID_EMAIL == "Invalid email format"
MSG_WEAK_PASSWORD == "Password is not strong enough. It should have at least 8 characters, including uppercase, lowercase, number, and special character."
MSG_PASSWORD_MISMATCH == "Passwords do not match"
MSG_INVALID_TIN == "Invalid Papua New Guinea TIN number format"
MSG_UNAUTHORIZED == "Unauthorized"
MSG_USER_NOT_FOUND == "User not found"
MSG_INVALID_TOKEN == "Invalid or expired reset token"

(***************************************************************************)
(* Optional values                                                         *)
(***************************************************************************)
None == <<>>
Some(x) == <<x>>
IsSome(o) == Len(o) > 0
Get(o) == o[1]

(***************************************************************************)
(* Characters and strings                                                  *)
(***************************************************************************)
UpperChars == {"A", "B", "C", "D", "E", "F", "G", "H", "I", "J", "K", "L", "M",
               "N", "O", "P", "Q", "R", "S", "T", "U", "V", "W", "X", "Y", "Z"}
LowerChars == {"a", "b", "c", "d", "e", "f", "g", "h", "i", "j", "k", "l", "m",
               "n", "o", "p", "q", "r", "s", "t", "u", "v", "w", "x", "y", "z"}
DigitChars == {"0", "1", "2", "3", "4", "5", "6", "7", "8", "9"}
SpecialChars == {"!", "@", "#", "$", "%", "^", "&", "*", "(", ")", "_", "+", "-",
                 "=", "[", "]", "{", "}", ";", "'", ":", "\"", "\\", "|", ",", ".", "<",
                 ">", "/", "?"}
SpaceChars == {" "}

LowerPairs == <<<<"A", "a">>, <<"B", "b">>, <<"C", "c">>, <<"D", "d">>, <<"E", "e">>,
                <<"F", "f">>, <<"G", "g">>, <<"H", "h">>, <<"I", "i">>, <<"J", "j">>,
                <<"K", "k">>, <<"L", "l">>, <<"M", "m">>, <<"N", "n">>, <<"O", "o">>,
                <<"P", "p">>, <<"Q", "q">>, <<"R", "r">>, <<"S", "s">>, <<"T", "t">>,
                <<"U", "u">>, <<"V", "v">>, <<"W", "w">>, <<"X", "x">>, <<"Y", "y">>,
                <<"Z", "z">>>>

\* String.prototype.toLowerCase on one character
lowerChar(c) ==
  IF c \in UpperChars
    THEN LowerPairs[CHOOSE i \in DOMAIN LowerPairs : LowerPairs[i][1] = c][2]
    ELSE c

\* String.prototype.toLowerCase
toLowerCase(s) == [i \in DOMAIN s |-> lowerChar(s[i])]

HasChar(s, class) == \E i \in DOMAIN s : s[i] \in class

\* emailRegex.test(email), emailRegex = /^[^\s@]+@[^\s@]+\.[^\s@]+$/
emailRegexTest(s) ==
  /\ ~HasChar(s, SpaceChars)
  /\ \E i \in DOMAIN s :
       /\ s[i] = "@"
       /\ \A k \in DOMAIN s : s[k] = "@" => k = i
       /\ i > 1
       /\ \E j \in DOMAIN s : j > i + 1 /\ j < Len(s) /\ s[j] = "."

\* AuthService.isPasswordStrong
isPasswordStrong(password) ==
  IF Len(password) < 8 THEN FALSE
  ELSE /\ HasChar(password, UpperChars)
       /\ HasChar(password, LowerChars)
       /\ HasChar(password, DigitChars)
       /\ HasChar(password, SpecialChars)

\* AuthService.isValidTIN: /^\d{9,10}$/
isValidTIN(tin) ==
  /\ Len(tin) >= 9
  /\ Len(tin) <= 10
  /\ \A i \in DOMAIN tin : tin[i] \in DigitChars

(***************************************************************************)
(* Inputs                                                                  *)
(***************************************************************************)
EmailA == <<"a", "@", "x", ".", "c">>
EmailAUpper == <<"A", "@", "x", ".", "c">>
EmailB == <<"b", "@", "x", ".", "c">>
EmailBad == <<"a", "x", ".", "c">>

PwdOne == <<"A", "b", "c", "d", "1", "2", "3", "!">>
PwdTwo == <<"W", "x", "y", "z", "7", "8", "9", "#">>
PwdWeak == <<"a", "b", "c", "d", "1", "2", "3", "4">>

TinGood == <<"1", "2", "3", "4", "5", "6", "7", "8", "9">>
TinBad == <<"1", "2", "x">>

ROLE_INDIVIDUAL == "individual"
ROLE_BUSINESS == "business"
ROLE_ADMIN == "admin"


(***************************************************************************)
(* State                                                                   *)
(***************************************************************************)
VARIABLES
  now,            \* Date.now(), in ticks
  nextId,         \* the next value generateUniqueId returns
  clockSteps,     \* how many times the clock has been advanced
  lastCheck,      \* when the setInterval callback last ran
  currentUser,    \* AuthService.currentUser      (optional)
  accessToken,    \* AuthService.accessToken      (optional)
  refreshToken,   \* AuthService.refreshToken     (optional)
  tokenExpiresAt, \* AuthService.tokenExpiresAt   (optional)
  loginAttempts,  \* AuthService.loginAttempts : email -> {count, lastAttempt}
  localStorage,   \* window.localStorage, one field per key the service uses
  pending,        \* calls suspended at their await, oldest first
  emitted,        \* EventBus.emit calls of the last step, in order
  observed,       \* what a listener finds at each of these calls
  audit,          \* AuditTrailService.logAction calls of the last step
  last,           \* what the last step was and how it ended
  before,         \* the session and the limiter when the call `last` reports was made
  passwordResets, \* sent: the reset tokens requestPasswordReset has mailed and
                  \* when, oldest first; completed: the tokens a resetPassword
                  \* has succeeded with
  bus,            \* EventBus: listeners (event -> callbacks in subscription
                  \* order), and how the last call on the bus went
  passwordOf      \* user id -> the password the user last chose, in a register
                  \* or a resetPassword that succeeded

vars == <<now, nextId, clockSteps, lastCheck, currentUser, accessToken,
          refreshToken, tokenExpiresAt, loginAttempts, localStorage, pending,
          emitted, observed, audit, last, before, passwordResets, bus, passwordOf>>

memory == <<currentUser, accessToken, refreshToken, tokenExpiresAt>>

EmptyMap == [k \in {} |-> None]

\* variant: the key stays
DeleteKeeps(map, key) == map

\* delete obj[key]
Delete(map, key) == [k \in DOMAIN map \ {key} |-> map[k]]

\* obj[key] = value
Put(map, key, value) == [k \in DOMAIN map \cup {key} |-> IF k = key THEN value ELSE map[k]]

(***************************************************************************)
(* Event notifier and audit sink                                           *)
(***************************************************************************)
\* EventBus.emit(event, data): every listener runs inside try/catch, so emit
\* returns normally; the call is recorded.
Event(name, data) == [event |-> name, data |-> data]

\* a listener called by emit reads getCurrentUser() and the four Session
\* entries of localStorage as they are at that statement
Observation(user, ls) ==
  [currentUser |-> user, wantok_user |-> ls.wantok_user,
   wantok_auth_token |-> ls.wantok_auth_token,
   wantok_refresh_token |-> ls.wantok_refresh_token,
   wantok_token_expires |-> ls.wantok_token_expires]

\* AuditTrailService.logAction(userId, action, ...)
logAction(userId, action) == [userId |-> userId, action |-> action]

(***************************************************************************)
(* EventBus.  A callback is known by what it does when called: "plain"     *)
(* returns, "throwing" throws, "once" calls the unsubscribe function its   *)
(* own subscription returned, "chaining" subscribes "late" to the event it *)
(* is called for.                                                          *)
(***************************************************************************)
\* private listeners: Record<string, EventCallback[]> = {}, and nobody
\* holding an unsubscribe function yet
EmptyBus ==
  [listeners |-> EmptyMap, op |-> "new", delivered |-> <<>>, threw |-> FALSE,
   handles |-> {}]

\* this.listeners[event].filter(cb => cb !== callback)
filter(callbacks, callback) == SelectSeq(callbacks, LAMBDA cb : cb # callback)

\* on(event, callback): the listeners afterwards
on(listeners, event, callback) ==
  Put(listeners, event,
      Append(IF event \in DOMAIN listeners THEN listeners[event] ELSE <<>>, callback))

RECURSIVE deliverAborting(_, _, _, _, _, _)
\* variant: the loop without its try/catch
deliverAborting(event, iterated, listeners, same, k, calls) ==
  IF k > Len(iterated)
    THEN [listeners |-> listeners, delivered |-> calls, threw |-> FALSE]
  ELSE LET callback == iterated[k]
           called == Append(calls, callback)
       IN IF callback = "throwing"
            THEN [listeners |-> listeners, delivered |-> called, threw |-> TRUE]
          ELSE IF callback = "once"
            THEN deliverAborting(event, iterated,
                                 [listeners EXCEPT ![event] = filter(@, "once")],
                                 FALSE, k + 1, called)
          ELSE IF callback = "chaining"
            THEN deliverAborting(event,
                                 IF same THEN Append(iterated, "late") ELSE iterated,
                                 on(listeners, event, "late"), same, k + 1, called)
          ELSE deliverAborting(event, iterated, listeners, same, k + 1, called)

RECURSIVE deliver(_, _, _, _, _, _)
\* for (const callback of this.listeners[event]) try { callback(data) } catch
\* from the k-th element on.  `iterated` is the array the loop walks,
\* `listeners` the table as the callbacks have left it, `same` whether
\* listeners[event] is still that array (filter makes a new one, push
\* extends the one there is), `calls` the callbacks called so far.
deliver(event, iterated, listeners, same, k, calls) ==
  IF k > Len(iterated)
    THEN [listeners |-> listeners, delivered |-> calls, threw |-> FALSE]
  ELSE LET callback == iterated[k]
           called == Append(calls, callback)
       IN IF callback = "once"
            THEN deliver(event, iterated,
                         [listeners EXCEPT ![event] = filter(@, "once")],
                         FALSE, k + 1, called)
          ELSE IF callback = "chaining"
            THEN deliver(event,
                         IF same THEN Append(iterated, "late") ELSE iterated,
                         on(listeners, event, "late"), same, k + 1, called)
          ELSE deliver(event, iterated, listeners, same, k + 1, called)

\* emit(event, data): the listeners afterwards, the callbacks called in
\* order, and whether emit threw
emit(listeners, event) ==
  IF event \notin DOMAIN listeners
    THEN [listeners |-> listeners, delivered |-> <<>>, threw |-> FALSE]
    ELSE deliver(event, listeners[event], listeners, TRUE, 1, <<>>)

(***************************************************************************)
(* What a step reports                                                     *)
(***************************************************************************)
Returned(op, value) ==
  [op |-> op, status |-> "returned", error |-> "", value |-> value]
Threw(op, error) ==
  [op |-> op, status |-> "threw", error |-> error, value |-> None]
Awaiting(op) ==
  [op |-> op, status |-> "awaiting", error |-> "", value |-> None]
Internal(op) ==
  [op |-> op, status |-> "internal", error |-> "", value |-> None]

\* what `before` records
Snapshot ==
  [currentUser |-> currentUser, accessToken |-> accessToken,
   refreshToken |-> refreshToken, tokenExpiresAt |-> tokenExpiresAt,
   loginAttempts |-> loginAttempts]

NoSnapshot ==
  [currentUser |-> None, accessToken |-> None, refreshToken |-> None,
   tokenExpiresAt |-> None, loginAttempts |-> <<>>]

(***************************************************************************)
(* Password hasher                                                         *)
(***************************************************************************)
\* simulateHash(input): SHA-256 in hex, taken as collision free.  The salt
\* has a fixed length (slice(0, 16)), so password + salt determines both.
simulateHash(password, salt) == [password |-> password, salt |-> salt]

\* hashPassword(password) with the salt drawn by generateUniqueId:
\* `${salt}:${hash}`
hashPassword(password, salt) == [salt |-> salt, hash |-> simulateHash(password, salt)]

\* verifyPassword(password, storedHash)
verifyPassword(password, storedHash) ==
  simulateHash(password, storedHash.salt) = storedHash.hash

(***************************************************************************)
(* Token issuer                                                            *)
(***************************************************************************)
\* Math.floor(ms / 1000): ticks to whole seconds
floorSeconds(t) == t \div TicksPerSecond

\* encodeToken(payload), signature drawn by generateUniqueId
encodeToken(payload, signature) == [payload |-> payload, signature |-> signature]

\* decodeToken(token): header.payload.signature always has three parts and
\* the payload is the JSON the service wrote
decodeToken(token) == Some(token.payload)

\* variant: the extended lifetime is given to every refresh token
generateTokensAtAlwaysExtended(t, userId, email, role, extendedSession, id) ==
  LET accessTokenExpiry == t + ACCESS_TOKEN_EXPIRY
      refreshTokenExpiry == t + REMEMBER_ME_EXPIRY
      accessPayload == [userId |-> userId, email |-> email, role |-> role,
                        exp |-> floorSeconds(accessTokenExpiry)]
      refreshPayload == [userId |-> userId, email |-> email, role |-> role,
                         exp |-> floorSeconds(refreshTokenExpiry)]
  IN [accessToken |-> encodeToken(accessPayload, id),
      refreshToken |-> encodeToken(refreshPayload, id + 1),
      expiresAt |-> accessTokenExpiry]

\* generateTokens(userId, email, role, extendedSession) when Date.now() is
\* t; id and id + 1 are the two signatures
generateTokensAt(t, userId, email, role, extendedSession, id) ==
  LET accessTokenExpiry == t + ACCESS_TOKEN_EXPIRY
      refreshTokenExpiry == IF extendedSession THEN t + REMEMBER_ME_EXPIRY
                                               ELSE t + REFRESH_TOKEN_EXPIRY
      accessPayload == [userId |-> userId, email |-> email, role |-> role,
                        exp |-> floorSeconds(accessTokenExpiry)]
      refreshPayload == [userId |-> userId, email |-> email, role |-> role,
                         exp |-> floorSeconds(refreshTokenExpiry)]
  IN [accessToken |-> encodeToken(accessPayload, id),
      refreshToken |-> encodeToken(refreshPayload, id + 1),
      expiresAt |-> accessTokenExpiry]

generateTokens(userId, email, role, extendedSession, id) ==
  generateTokensAt(now, userId, email, role, extendedSession, id)

\* isTokenValid()
isTokenValid ==
  IF ~IsSome(accessToken) \/ ~IsSome(tokenExpiresAt) THEN FALSE
  ELSE now < Get(tokenExpiresAt)

\* isAuthenticated()
isAuthenticated == IsSome(currentUser) /\ IsSome(accessToken) /\ isTokenValid

\* getCurrentUser()
getCurrentUser == currentUser

(***************************************************************************)
(* User repository (localStorage 'users')                                  *)
(***************************************************************************)
\* getStoredUsers()
getStoredUsers(ls) == ls.users

\* Array.prototype.findIndex, given what the callback returns for each
\* element; 0 stands for -1
findIndex(matches) ==
  IF \E i \in DOMAIN matches : matches[i]
    THEN CHOOSE i \in DOMAIN matches : matches[i] /\ \A j \in 1..(i - 1) : ~matches[j]
    ELSE 0

\* findUserByEmail(email): the first stored user whose email matches ignoring case
findUserByEmail(ls, email) ==
  LET users == getStoredUsers(ls)
      Match(u) == toLowerCase(u.email) = toLowerCase(email)
      i == findIndex([k \in DOMAIN users |-> Match(users[k])])
  IN IF i = 0 THEN None ELSE Some(users[i])

\* saveUserToStorage(user)
saveUserToStorage(ls, user) == [ls EXCEPT !.users = Append(getStoredUsers(ls), user)]

\* variant: the record is handed on as it is stored
sanitizeUserKeeps(user) == user

\* sanitizeUser(user)
sanitizeUser(user) == [f \in DOMAIN user \ {"password"} |-> user[f]]


(***************************************************************************)
(* Rate limiter                                                            *)
(***************************************************************************)
\* resetLoginAttempts(email)
\* variant: the entry is kept
resetLoginAttemptsKeeps(attempts, email) == attempts

resetLoginAttempts(attempts, email) == Delete(attempts, email)

\* variant: locks out only above MAX_LOGIN_ATTEMPTS
isRateLimitedAboveMax(attempts, email) ==
  IF email \notin DOMAIN attempts THEN FALSE
  ELSE IF attempts[email].count > MAX_LOGIN_ATTEMPTS
         THEN now < attempts[email].lastAttempt + LOCKOUT_DURATION
         ELSE FALSE

\* isRateLimited(email): the value it returns
isRateLimited(attempts, email) ==
  IF email \notin DOMAIN attempts THEN FALSE
  ELSE IF attempts[email].count >= MAX_LOGIN_ATTEMPTS
         THEN now < attempts[email].lastAttempt + LOCKOUT_DURATION
         ELSE FALSE

\* variant: an attempt made during the lockout is counted
afterIsRateLimitedCounting(attempts, email) ==
  IF email \notin DOMAIN attempts THEN attempts
  ELSE IF attempts[email].count >= MAX_LOGIN_ATTEMPTS
         THEN IF now < attempts[email].lastAttempt + LOCKOUT_DURATION
                THEN [attempts EXCEPT ![email] =
                        [count |-> @.count + 1, lastAttempt |-> now]]
                ELSE Delete(attempts, email)
         ELSE attempts

\* isRateLimited(email): the table it leaves (reset once the lockout is over)
afterIsRateLimited(attempts, email) ==
  IF email \notin DOMAIN attempts THEN attempts
  ELSE IF attempts[email].count >= MAX_LOGIN_ATTEMPTS
         THEN IF now < attempts[email].lastAttempt + LOCKOUT_DURATION
                THEN attempts
                ELSE resetLoginAttempts(attempts, email)
         ELSE attempts

\* variant: the count restarts instead of going up
recordLoginAttemptLosing(attempts, email) ==
  Put(attempts, email, [count |-> 1, lastAttempt |-> now])

\* recordLoginAttempt(email)
recordLoginAttempt(attempts, email) ==
  LET known == IF email \notin DOMAIN attempts
                 THEN Put(attempts, email, [count |-> 0, lastAttempt |-> now])
                 ELSE attempts
  IN [known EXCEPT ![email] = [count |-> @.count + 1, lastAttempt |-> now]]

(***************************************************************************)
(* Session storage                                                         *)
(***************************************************************************)
\* variant: the stored user is left as it was
setCurrentSessionStorageKeepsUser(ls, session) ==
  [ls EXCEPT !.wantok_auth_token = Some(session.accessToken),
             !.wantok_refresh_token =
                IF IsSome(session.refreshToken) THEN session.refreshToken ELSE @,
             !.wantok_token_expires = Some(session.expiresAt)]

\* the localStorage.setItem calls of setCurrentSession(session)
setCurrentSessionStorage(ls, session) ==
  [ls EXCEPT !.wantok_user = Some(session.user),
             !.wantok_auth_token = Some(session.accessToken),
             !.wantok_refresh_token =
                IF IsSome(session.refreshToken) THEN session.refreshToken ELSE @,
             !.wantok_token_expires = Some(session.expiresAt)]

\* the assignments of setCurrentSession(session)
setCurrentSessionMemory(session) ==
  /\ currentUser' = Some(session.user)
  /\ accessToken' = Some(session.accessToken)
  /\ refreshToken' = session.refreshToken
  /\ tokenExpiresAt' = Some(session.expiresAt)

\* variant: the stored user survives
logoutStorageKeepsUser(ls) ==
  [ls EXCEPT !.wantok_auth_token = None,
             !.wantok_refresh_token = None,
             !.wantok_token_expires = None]

\* the localStorage.removeItem calls of logout()
logoutStorage(ls) ==
  [ls EXCEPT !.wantok_auth_token = None,
             !.wantok_refresh_token = None,
             !.wantok_user = None,
             !.wantok_token_expires = None]

\* variant: the access token stays in memory
logoutMemoryKeepsToken ==
  /\ currentUser' = None
  /\ refreshToken' = None
  /\ UNCHANGED <<accessToken, tokenExpiresAt>>

\* the assignments of logout()
logoutMemory ==
  /\ currentUser' = None
  /\ accessToken' = None
  /\ refreshToken' = None
  /\ tokenExpiresAt' = None

\* sendVerificationEmail(email), token drawn by generateUniqueId
sendVerificationEmail(ls, email, token) ==
  LET user == findUserByEmail(ls, email)
  IN IF ~IsSome(user) THEN ls
     ELSE [ls EXCEPT !.email_verification_tokens =
             Put(@, Get(user).id,
                 [token |-> token, expiresAt |-> now + VERIFICATION_TOKEN_EXPIRY])]

(***************************************************************************)
(* Initial state: a fresh browser profile, the singleton just constructed  *)
(* (loadUserFromStorage finds nothing).                                    *)
(***************************************************************************)
EmptyStorage ==
  [wantok_user |-> None, wantok_auth_token |-> None,
   wantok_refresh_token |-> None, wantok_token_expires |-> None,
   users |-> <<>>, password_reset_tokens |-> EmptyMap,
   email_verification_tokens |-> EmptyMap]

Init ==
  /\ now = 0
  /\ nextId = 1
  /\ clockSteps = 0
  /\ lastCheck = 0
  /\ currentUser = None
  /\ accessToken = None
  /\ refreshToken = None
  /\ tokenExpiresAt = None
  /\ loginAttempts = EmptyMap
  /\ localStorage = EmptyStorage
  /\ pending = <<>>
  /\ emitted = <<>>
  /\ observed = <<>>
  /\ audit = <<>>
  /\ last = Internal("constructor")
  /\ before = NoSnapshot
  /\ passwordResets = [sent |-> <<>>, completed |-> {}]
  /\ bus = EmptyBus
  /\ passwordOf = EmptyMap

\* whether the caller may start a call: one at a time, or overlapping
CanStart(overlap) ==
  IF overlap THEN Len(pending) < MaxPending ELSE pending = <<>>

\* generateUniqueId() can still return k fresh values
IdsLeft(k) == nextId + k - 1 <= MaxIds

RemoveAt(seq, i) == [j \in 1..(Len(seq) - 1) |-> IF j < i THEN seq[j] ELSE seq[j + 1]]

(***************************************************************************)
(* logout()                                                                *)
(***************************************************************************)
\* variant: a logout that leaves no trace in the audit trail
logoutBodyUnlogged ==
  IF ~IsSome(currentUser)
    THEN /\ UNCHANGED <<memory, localStorage>>
         /\ observed' = <<>>
         /\ emitted' = <<>>
         /\ audit' = <<>>
    ELSE LET userId == Get(currentUser).id
             email == Get(currentUser).email
         IN /\ localStorage' = logoutStorage(localStorage)
            /\ logoutMemory
            /\ audit' = <<>>
            /\ observed' = <<Observation(None, logoutStorage(localStorage))>>
            /\ emitted' = <<Event("user.loggedout", [userId |-> userId, email |-> email])>>

\* variant: user.loggedout is emitted before the Session is cleared
logoutBodyAnnouncing ==
  IF ~IsSome(currentUser)
    THEN /\ UNCHANGED <<memory, localStorage>>
         /\ observed' = <<>>
         /\ emitted' = <<>>
         /\ audit' = <<>>
    ELSE LET userId == Get(currentUser).id
             email == Get(currentUser).email
         IN /\ localStorage' = logoutStorage(localStorage)
            /\ logoutMemory
            /\ audit' = <<logAction(userId, "logout")>>
            /\ observed' = <<Observation(currentUser, localStorage)>>
            /\ emitted' = <<Event("user.loggedout", [userId |-> userId, email |-> email])>>

logoutBody ==
  IF ~IsSome(currentUser)
    THEN /\ UNCHANGED <<memory, localStorage>>
         /\ observed' = <<>>
         /\ emitted' = <<>>
         /\ audit' = <<>>
    ELSE LET userId == Get(currentUser).id
             email == Get(currentUser).email
         IN /\ localStorage' = logoutStorage(localStorage)
            /\ logoutMemory
            /\ audit' = <<logAction(userId, "logout")>>
            /\ observed' = <<Observation(None, logoutStorage(localStorage))>>
            /\ emitted' = <<Event("user.loggedout", [userId |-> userId, email |-> email])>>

Logout(overlap) ==
  /\ CanStart(overlap)
  /\ logoutBody
  /\ last' = Returned("logout", None)
  /\ before' = Snapshot
  /\ UNCHANGED <<passwordOf, bus, passwordResets, now, nextId, clockSteps, lastCheck, loginAttempts, pending>>

(***************************************************************************)
(* refreshAccessToken()                                                    *)
(***************************************************************************)
\* whether refreshAccessToken() gets as far as generateTokens
refreshProceeds ==
  /\ IsSome(refreshToken)
  /\ IsSome(currentUser)
  /\ LET payload == decodeToken(Get(refreshToken))
     IN IsSome(payload) /\ ~(now >= Get(payload).exp * TicksPerSecond)

\* variant: the new token keeps the expiry of the one it replaces
refreshResponseStaleExpiry ==
  LET user == Get(currentUser)
      tokens == generateTokens(user.id, user.email, user.role, FALSE, nextId)
  IN [user |-> user, accessToken |-> tokens.accessToken,
      refreshToken |-> None, expiresAt |-> Get(tokenExpiresAt)]

\* the AuthResponse of a refresh that proceeds
refreshResponse ==
  LET user == Get(currentUser)
      tokens == generateTokens(user.id, user.email, user.role, FALSE, nextId)
  IN [user |-> user, accessToken |-> tokens.accessToken,
      refreshToken |-> None, expiresAt |-> tokens.expiresAt]

\* variant: a call with nothing to refresh reports a failure
refreshAccessTokenBodyNoisy ==
  IF ~IsSome(refreshToken) \/ ~IsSome(currentUser)
    THEN /\ UNCHANGED <<memory, localStorage, nextId>>
         /\ observed' = <<Observation(currentUser, localStorage)>>
         /\ emitted' = <<Event("auth.token.refresh.failed", [error |-> "no session"])>>
         /\ audit' = <<>>
    ELSE IF ~refreshProceeds
      THEN /\ logoutBody
           /\ UNCHANGED nextId
      ELSE LET r == refreshResponse
           IN /\ IdsLeft(2)
              /\ nextId' = nextId + 2
              /\ accessToken' = Some(r.accessToken)
              /\ tokenExpiresAt' = Some(r.expiresAt)
              /\ UNCHANGED <<currentUser, refreshToken>>
              /\ localStorage' = [localStorage EXCEPT
                                    !.wantok_auth_token = Some(r.accessToken),
                                    !.wantok_token_expires = Some(r.expiresAt)]
              /\ audit' = <<logAction(r.user.id, "login")>>
              /\ observed' = <<Observation(currentUser, localStorage')>>
              /\ emitted' = <<Event("auth.token.refreshed", [userId |-> r.user.id])>>

refreshAccessTokenBody ==
  IF ~IsSome(refreshToken) \/ ~IsSome(currentUser)
    THEN /\ UNCHANGED <<memory, localStorage, nextId>>
         /\ observed' = <<>>
         /\ emitted' = <<>>
         /\ audit' = <<>>
    ELSE IF ~refreshProceeds
      THEN /\ logoutBody
           /\ UNCHANGED nextId
      ELSE LET r == refreshResponse
           IN /\ IdsLeft(2)
              /\ nextId' = nextId + 2
              /\ accessToken' = Some(r.accessToken)
              /\ tokenExpiresAt' = Some(r.expiresAt)
              /\ UNCHANGED <<currentUser, refreshToken>>
              /\ localStorage' = [localStorage EXCEPT
                                    !.wantok_auth_token = Some(r.accessToken),
                                    !.wantok_token_expires = Some(r.expiresAt)]
              /\ audit' = <<logAction(r.user.id, "login")>>
              /\ observed' = <<Observation(currentUser, localStorage')>>
              /\ emitted' = <<Event("auth.token.refreshed", [userId |-> r.user.id])>>

\* variant: the caller gets the token of an earlier read of the Session
RefreshAccessTokenStale(overlap) ==
  /\ CanStart(overlap)
  /\ refreshAccessTokenBody
  /\ last' = Returned("refreshAccessToken",
                      IF refreshProceeds
                        THEN Some([refreshResponse EXCEPT !.accessToken = Get(accessToken)])
                        ELSE None)
  /\ before' = Snapshot
  /\ UNCHANGED <<passwordOf, bus, passwordResets, now, clockSteps, lastCheck, loginAttempts, pending>>

RefreshAccessToken(overlap) ==
  /\ CanStart(overlap)
  /\ refreshAccessTokenBody
  /\ last' = Returned("refreshAccessToken",
                      IF refreshProceeds THEN Some(refreshResponse) ELSE None)
  /\ before' = Snapshot
  /\ UNCHANGED <<passwordOf, bus, passwordResets, now, clockSteps, lastCheck, loginAttempts, pending>>

(***************************************************************************)
(* The background expiry check and the clock                               *)
(***************************************************************************)
\* whether checkTokenExpiration() calls refreshAccessToken()
checkNeedsRefresh ==
  IF ~isAuthenticated THEN FALSE
  ELSE ~IsSome(tokenExpiresAt) \/ now > Get(tokenExpiresAt) - REFRESH_HORIZON

\* setInterval(() => this.checkTokenExpiration(), 60 * 1000)
CheckTokenExpiration ==
  /\ now >= lastCheck + CHECK_INTERVAL
  /\ lastCheck' = now
  /\ IF checkNeedsRefresh
       THEN refreshAccessTokenBody
       ELSE /\ UNCHANGED <<memory, localStorage, nextId>>
            /\ observed' = <<>>
            /\ emitted' = <<>>
            /\ audit' = <<>>
  /\ last' = Internal("checkTokenExpiration")
  /\ before' = Snapshot
  /\ UNCHANGED <<passwordOf, bus, passwordResets, now, clockSteps, loginAttempts, pending>>

(***************************************************************************)
(* new AuthService(): the page is loaded again                             *)
(***************************************************************************)
NoSession ==
  [currentUser |-> None, accessToken |-> None, refreshToken |-> None,
   tokenExpiresAt |-> None]

\* variant: an expired access token is kept when there is no refresh token
loadUserFromStorageKeepsExpired(ls, t, id) ==
  [session |-> [currentUser |-> ls.wantok_user, accessToken |-> ls.wantok_auth_token,
                refreshToken |-> ls.wantok_refresh_token,
                tokenExpiresAt |-> ls.wantok_token_expires],
   storage |-> ls, audit |-> <<>>, emitted |-> <<>>, observed |-> <<>>,
             ids |-> 0]

\* loadUserFromStorage() when Date.now() is t: the Session it leaves in
\* memory, localStorage after it, what it logs and emits, and how many
\* values it draws from generateUniqueId (from id on)
loadUserFromStorage(ls, t, id) ==
  LET storedUser == ls.wantok_user
      storedToken == ls.wantok_auth_token
      storedRefreshToken == ls.wantok_refresh_token
      storedExpiry == ls.wantok_token_expires
      user == Get(storedUser)
      \* this.logout() with the stored user as currentUser
      loggedOut ==
        [session |-> NoSession, storage |-> logoutStorage(ls),
         audit |-> <<logAction(user.id, "logout")>>,
         emitted |-> <<Event("user.loggedout", [userId |-> user.id, email |-> user.email])>>,
         observed |-> <<Observation(None, logoutStorage(ls))>>,
         ids |-> 0]
      tokens == generateTokensAt(t, user.id, user.email, user.role, FALSE, id)
      \* this.refreshAccessToken() with a refresh token that is accepted
      refreshed ==
        [session |-> [currentUser |-> storedUser,
                      accessToken |-> Some(tokens.accessToken),
                      refreshToken |-> storedRefreshToken,
                      tokenExpiresAt |-> Some(tokens.expiresAt)],
         storage |-> [ls EXCEPT !.wantok_auth_token = Some(tokens.accessToken),
                                !.wantok_token_expires = Some(tokens.expiresAt)],
         audit |-> <<logAction(user.id, "login")>>,
         emitted |-> <<Event("auth.token.refreshed", [userId |-> user.id])>>,
         observed |-> <<Observation(storedUser,
                          [ls EXCEPT !.wantok_auth_token = Some(tokens.accessToken),
                                     !.wantok_token_expires = Some(tokens.expiresAt)])>>,
         ids |-> 2]
  IN IF ~(IsSome(storedUser) /\ IsSome(storedToken) /\ IsSome(storedExpiry))
       THEN [session |-> NoSession, storage |-> ls, audit |-> <<>>, emitted |-> <<>>,
             observed |-> <<>>,
             ids |-> 0]
     ELSE IF t < Get(storedExpiry)
       THEN [session |-> [currentUser |-> storedUser, accessToken |-> storedToken,
                          refreshToken |-> storedRefreshToken,
                          tokenExpiresAt |-> storedExpiry],
             storage |-> ls, audit |-> <<>>, emitted |-> <<>>, observed |-> <<>>,
             ids |-> 0]
     ELSE IF ~IsSome(storedRefreshToken) THEN loggedOut
     ELSE LET payload == decodeToken(Get(storedRefreshToken))
          IN IF ~IsSome(payload) \/ t >= Get(payload).exp * TicksPerSecond
               THEN loggedOut
               ELSE refreshed

\* the page is closed and, d ticks later, loaded again: memory starts empty,
\* suspended calls are gone, the constructor runs loadUserFromStorage and
\* sets the interval
Restart(d) ==
  /\ clockSteps < MaxClockSteps
  /\ clockSteps' = clockSteps + 1
  /\ now' = now + d
  /\ lastCheck' = now + d
  /\ LET loaded == loadUserFromStorage(localStorage, now + d, nextId)
     IN /\ IdsLeft(loaded.ids)
        /\ nextId' = nextId + loaded.ids
        /\ currentUser' = loaded.session.currentUser
        /\ accessToken' = loaded.session.accessToken
        /\ refreshToken' = loaded.session.refreshToken
        /\ tokenExpiresAt' = loaded.session.tokenExpiresAt
        /\ localStorage' = loaded.storage
        /\ audit' = loaded.audit
        /\ observed' = loaded.observed
        /\ emitted' = loaded.emitted
  /\ loginAttempts' = EmptyMap
  /\ pending' = <<>>
  /\ last' = Internal("constructor")
  /\ before' = NoSnapshot
  /\ bus' = EmptyBus
  /\ UNCHANGED <<passwordResets, passwordOf>>

\* something other than the service removes one of the Session's keys from
\* localStorage (the user clearing site data, another script)
SessionKeys ==
  {"wantok_user", "wantok_auth_token", "wantok_refresh_token", "wantok_token_expires"}

RemoveItem(key) ==
  /\ key \in SessionKeys
  /\ IsSome(localStorage[key])
  /\ localStorage' = [localStorage EXCEPT ![key] = None]
  /\ observed' = <<>>
  /\ emitted' = <<>>
  /\ audit' = <<>>
  /\ last' = Internal("removeItem")
  /\ before' = NoSnapshot
  /\ UNCHANGED <<passwordOf, bus, passwordResets, now, nextId, clockSteps, lastCheck, memory,
                 loginAttempts, pending>>

(***************************************************************************)
(* Calls on the EventBus by its users                                      *)
(***************************************************************************)
service ==
  <<now, nextId, clockSteps, lastCheck, currentUser, accessToken, refreshToken,
    tokenExpiresAt, loginAttempts, localStorage, pending, emitted, observed, audit,
    last, before, passwordResets, passwordOf>>

\* the longest list of listeners in a table
Longest(listeners) ==
  IF DOMAIN listeners = {} THEN 0
  ELSE CHOOSE n \in {Len(listeners[e]) : e \in DOMAIN listeners} :
         \A e \in DOMAIN listeners : Len(listeners[e]) <= n

\* EventBus.getInstance().on(event, callback)
On(event, callback) ==
  /\ Longest(on(bus.listeners, event, callback)) <= MaxListeners
  /\ bus' = [listeners |-> on(bus.listeners, event, callback), op |-> "on",
             delivered |-> <<>>, threw |-> FALSE,
             handles |-> bus.handles \cup {<<event, callback>>}]
  /\ UNCHANGED service

\* variant: the function returned tolerates a missing array
unsubscribeGuarded(listeners, event, callback) ==
  IF event \in DOMAIN listeners
    THEN [listeners |-> [listeners EXCEPT ![event] = filter(@, callback)],
          threw |-> FALSE]
    ELSE [listeners |-> listeners, threw |-> FALSE]

\* the function on(event, callback) returned, called: the listeners
\* afterwards and whether it threw (a TypeError: this.listeners[event] is
\* undefined and has no filter)
unsubscribe(listeners, event, callback) ==
  IF event \in DOMAIN listeners
    THEN [listeners |-> [listeners EXCEPT ![event] = filter(@, callback)],
          threw |-> FALSE]
    ELSE [listeners |-> listeners, threw |-> TRUE]

\* the function on(event, callback) returned is called, any time after on
Unsubscribe(event, callback) ==
  /\ <<event, callback>> \in bus.handles
  /\ LET result == unsubscribe(bus.listeners, event, callback)
     IN bus' = [listeners |-> result.listeners, op |-> "unsubscribe",
                delivered |-> <<>>, threw |-> result.threw, handles |-> bus.handles]
  /\ UNCHANGED service

\* EventBus.getInstance().off(event)
Off(event) ==
  /\ event \in DOMAIN bus.listeners
  /\ bus' = [listeners |-> Delete(bus.listeners, event), op |-> "off",
             delivered |-> <<>>, threw |-> FALSE, handles |-> bus.handles]
  /\ UNCHANGED service

\* EventBus.getInstance().clear()
Clear ==
  /\ bus' = [listeners |-> EmptyMap, op |-> "clear", delivered |-> <<>>,
             threw |-> FALSE, handles |-> bus.handles]
  /\ UNCHANGED service

\* EventBus.getInstance().emit(event, data)
Emit(event) ==
  LET result == emit(bus.listeners, event)
  IN /\ Longest(result.listeners) <= MaxListeners
     /\ bus' = [listeners |-> result.listeners, op |-> "emit",
                delivered |-> result.delivered, threw |-> result.threw,
                handles |-> bus.handles]
     /\ UNCHANGED service

\* time passes: Date.now() is d ticks later
Tick(d) ==
  /\ clockSteps < MaxClockSteps
  /\ clockSteps' = clockSteps + 1
  /\ now' = now + d
  /\ observed' = <<>>
  /\ emitted' = <<>>
  /\ audit' = <<>>
  /\ last' = Internal("tick")
  /\ before' = NoSnapshot
  /\ UNCHANGED <<passwordOf, bus, passwordResets, nextId, lastCheck, memory, loginAttempts, localStorage, pending>>


(***************************************************************************)
(* login(payload)                                                          *)
(***************************************************************************)
\* catch (error) { emit('auth.login.failed', ...); throw error }
loginFailed(email, error) ==
  /\ observed' = <<Observation(currentUser, localStorage)>>
  /\ emitted' = <<Event("auth.login.failed", [email |-> email, error |-> error])>>
  /\ audit' = <<>>
  /\ last' = Threw("login", error)

\* variant: an unknown email is reported as such
loginUserMissingRevealing(email) == loginFailed(email, MSG_USER_NOT_FOUND)

\* if (!user) throw new Error('Invalid email or password')
loginUserMissing(email) == loginFailed(email, MSG_INVALID_CREDENTIALS)

\* if (!passwordValid) throw new Error('Invalid email or password')
loginPasswordInvalid(email) == loginFailed(email, MSG_INVALID_CREDENTIALS)

\* login up to its await (the digest inside verifyPassword)
LoginBegin(overlap, email, password, rememberMe) ==
  /\ CanStart(overlap)
  /\ IF isRateLimited(loginAttempts, email)
       THEN /\ loginAttempts' = afterIsRateLimited(loginAttempts, email)
            /\ loginFailed(email, MSG_RATE_LIMITED)
            /\ UNCHANGED pending
       ELSE LET user == findUserByEmail(localStorage, email)
            IN /\ loginAttempts' =
                    recordLoginAttempt(afterIsRateLimited(loginAttempts, email), email)
               /\ IF ~IsSome(user)
                    THEN /\ loginUserMissing(email)
                         /\ UNCHANGED pending
                    ELSE /\ pending' = Append(pending,
                                [op |-> "login", email |-> email, password |-> password,
                                 rememberMe |-> rememberMe, user |-> Get(user),
                                 before |-> Snapshot])
                         /\ observed' = <<>>
                         /\ emitted' = <<>>
                         /\ audit' = <<>>
                         /\ last' = Awaiting("login")
  /\ before' = Snapshot
  /\ UNCHANGED <<passwordOf, bus, passwordResets, now, nextId, clockSteps, lastCheck, memory, localStorage>>

\* the AuthResponse of a login whose password verified
loginResponse(call) ==
  LET user == call.user
      tokens == generateTokens(user.id, user.email, user.role, call.rememberMe, nextId)
  IN [user |-> sanitizeUser(user), accessToken |-> tokens.accessToken,
      refreshToken |-> Some(tokens.refreshToken), expiresAt |-> tokens.expiresAt]

\* login from its await on
LoginEnd(i) ==
  /\ i \in DOMAIN pending
  /\ pending[i].op = "login"
  /\ LET call == pending[i]
         passwordValid == verifyPassword(call.password, call.user.password)
     IN /\ pending' = RemoveAt(pending, i)
        /\ before' = call.before
        /\ IF ~passwordValid
             THEN /\ loginPasswordInvalid(call.email)
                  /\ UNCHANGED <<loginAttempts, nextId, memory, localStorage>>
             ELSE LET session == loginResponse(call)
                  IN /\ IdsLeft(2)
                     /\ nextId' = nextId + 2
                     /\ loginAttempts' = resetLoginAttempts(loginAttempts, call.email)
                     /\ setCurrentSessionMemory(session)
                     /\ localStorage' = setCurrentSessionStorage(localStorage, session)
                     /\ audit' = <<logAction(call.user.id, "login")>>
                     /\ observed' = <<Observation(currentUser', localStorage')>>
                     /\ emitted' = <<Event("user.loggedin",
                                       [userId |-> call.user.id, email |-> call.user.email])>>
                     /\ last' = Returned("login", Some(session))
  /\ UNCHANGED <<passwordOf, bus, passwordResets, now, clockSteps, lastCheck>>

(***************************************************************************)
(* register(payload)                                                       *)
(***************************************************************************)
\* validateRegistrationPayload(payload): the message thrown, "" when none
validateRegistrationPayload(payload) ==
  IF Len(payload.email) = 0 \/ Len(payload.password) = 0 \/ Len(payload.confirmPassword) = 0
    THEN MSG_MISSING_FIELDS
  ELSE IF ~emailRegexTest(payload.email) THEN MSG_INVALID_EMAIL
  ELSE IF ~isPasswordStrong(payload.password) THEN MSG_WEAK_PASSWORD
  ELSE IF payload.password # payload.confirmPassword THEN MSG_PASSWORD_MISMATCH
  ELSE IF Len(payload.tinNumber) > 0 /\ ~isValidTIN(payload.tinNumber) THEN MSG_INVALID_TIN
  ELSE ""

\* existingUsers.some(user => user.email === payload.email)
emailIsRegistered(ls, email) ==
  \E i \in DOMAIN getStoredUsers(ls) : getStoredUsers(ls)[i].email = email

\* catch (error) { emit('auth.registration.failed', ...); throw error }
registerFailed(payload, error) ==
  /\ observed' = <<Observation(currentUser, localStorage)>>
  /\ emitted' = <<Event("auth.registration.failed", [error |-> error])>>
  /\ audit' = <<>>
  /\ last' = Threw("register", error)

\* the registrations suspended at their await
PendingRegisters == Cardinality({i \in DOMAIN pending : pending[i].op = "register"})

\* register up to its await (the digest inside hashPassword)
RegisterBegin(overlap, payload) ==
  /\ CanStart(overlap)
  /\ LET invalid == validateRegistrationPayload(payload)
     IN IF invalid # ""
          THEN /\ registerFailed(payload, invalid)
               /\ UNCHANGED <<pending, nextId>>
        ELSE IF emailIsRegistered(localStorage, payload.email)
          THEN /\ registerFailed(payload, MSG_EMAIL_TAKEN)
               /\ UNCHANGED <<pending, nextId>>
        ELSE /\ IdsLeft(5)
             /\ Len(getStoredUsers(localStorage)) + PendingRegisters < MaxUsers
             /\ nextId' = nextId + 2
             /\ pending' = Append(pending,
                   [op |-> "register", payload |-> payload, userId |-> nextId,
                    createdAt |-> now, salt |-> nextId + 1, before |-> Snapshot])
             /\ observed' = <<>>
             /\ emitted' = <<>>
             /\ audit' = <<>>
             /\ last' = Awaiting("register")
  /\ before' = Snapshot
  /\ UNCHANGED <<passwordOf, bus, passwordResets, now, clockSteps, lastCheck, memory, loginAttempts, localStorage>>

\* the record register builds once the hash is there
newUser(call) ==
  [id |-> call.userId,
   email |-> call.payload.email,
   firstName |-> None,
   lastName |-> None,
   businessName |-> call.payload.businessName,
   tinNumber |-> IF Len(call.payload.tinNumber) > 0 THEN Some(call.payload.tinNumber) ELSE None,
   businessType |-> None,
   phoneNumber |-> None,
   verified |-> FALSE,
   role |-> IF IsSome(call.payload.role) THEN Get(call.payload.role) ELSE ROLE_INDIVIDUAL,
   createdAt |-> call.createdAt,
   updatedAt |-> call.createdAt,
   password |-> hashPassword(call.payload.password, call.salt)]

\* the AuthResponse of a register
registerResponse(call) ==
  LET user == newUser(call)
      tokens == generateTokens(user.id, call.payload.email, user.role, FALSE, nextId)
  IN [user |-> sanitizeUser(user), accessToken |-> tokens.accessToken,
      refreshToken |-> Some(tokens.refreshToken), expiresAt |-> tokens.expiresAt]

\* register from its await on
RegisterEnd(i) ==
  /\ i \in DOMAIN pending
  /\ pending[i].op = "register"
  /\ LET call == pending[i]
         session == registerResponse(call)
         saved == saveUserToStorage(localStorage, newUser(call))
         stored == setCurrentSessionStorage(saved, session)
     IN /\ pending' = RemoveAt(pending, i)
        /\ before' = call.before
        /\ nextId' = nextId + 3
        /\ setCurrentSessionMemory(session)
        /\ localStorage' = sendVerificationEmail(stored, call.payload.email, nextId + 2)
        /\ audit' = <<logAction(call.userId, "signup")>>
        /\ observed' = <<Observation(currentUser', stored)>>
        /\ emitted' = <<Event("user.registered",
                          [userId |-> call.userId, email |-> call.payload.email])>>
        /\ last' = Returned("register", Some(session))
        /\ passwordOf' = Put(passwordOf, call.userId, call.payload.password)
  /\ UNCHANGED <<bus, passwordResets, now, clockSteps, lastCheck, loginAttempts>>


(***************************************************************************)
(* verifyEmail(userId, token)                                              *)
(***************************************************************************)
\* verifyEmail without the expiry test of line 428
verifyEmailAcceptsExpired(userId, token) ==
  LET tokens == localStorage.email_verification_tokens
      HasId(u) == u.id = userId
  IN /\ userId \in DOMAIN tokens
     /\ tokens[userId].token = token
     /\ findIndex([k \in DOMAIN getStoredUsers(localStorage) |-> HasId(getStoredUsers(localStorage)[k])]) # 0

\* whether verifyEmail(userId, token) gets past its two early returns
verifyEmailAccepts(userId, token) ==
  LET tokens == localStorage.email_verification_tokens
      HasId(u) == u.id = userId
  IN /\ userId \in DOMAIN tokens
     /\ ~(tokens[userId].token # token \/ now > tokens[userId].expiresAt)
     /\ findIndex([k \in DOMAIN getStoredUsers(localStorage) |-> HasId(getStoredUsers(localStorage)[k])]) # 0

VerifyEmail(overlap, userId, token) ==
  /\ CanStart(overlap)
  /\ IF ~verifyEmailAccepts(userId, token)
       THEN /\ UNCHANGED <<memory, localStorage>>
            /\ observed' = <<>>
            /\ emitted' = <<>>
            /\ audit' = <<>>
            /\ last' = Returned("verifyEmail", Some(FALSE))
       ELSE LET users == getStoredUsers(localStorage)
                HasId(u) == u.id = userId
                userIndex == findIndex([k \in DOMAIN users |-> HasId(users[k])])
                updated == [users EXCEPT ![userIndex] =
                              [@ EXCEPT !.verified = TRUE, !.updatedAt = now]]
                active == IsSome(currentUser) /\ Get(currentUser).id = userId
                verifiedUser == [Get(currentUser) EXCEPT !.verified = TRUE]
            IN /\ currentUser' = IF active THEN Some(verifiedUser) ELSE currentUser
               /\ UNCHANGED <<accessToken, refreshToken, tokenExpiresAt>>
               /\ localStorage' =
                    [localStorage EXCEPT
                       !.users = updated,
                       !.wantok_user = IF active THEN Some(verifiedUser) ELSE @,
                       !.email_verification_tokens = Delete(@, userId)]
               /\ audit' = <<logAction(userId, "profile_update")>>
               /\ observed' = <<Observation(currentUser', localStorage')>>
               /\ emitted' = <<Event("user.email.verified",
                                 [userId |-> userId, email |-> users[userIndex].email])>>
               /\ last' = Returned("verifyEmail", Some(TRUE))
  /\ before' = Snapshot
  /\ UNCHANGED <<passwordOf, bus, passwordResets, now, nextId, clockSteps, lastCheck, loginAttempts, pending>>

(***************************************************************************)
(* updateProfile(userId, updates)                                          *)
(***************************************************************************)
allowedFields == <<"firstName", "lastName", "businessName", "phoneNumber", "businessType">>

\* variant: every field named in updates is written
applyEvery(user, updates, k) ==
  [f \in DOMAIN user |-> IF f \in DOMAIN updates THEN updates[f] ELSE user[f]]

RECURSIVE applyAllowed(_, _, _)
\* for (const field of allowedFields) if (field in updates) user[field] = updates[field]
applyAllowed(user, updates, k) ==
  IF k > Len(allowedFields) THEN user
  ELSE LET field == allowedFields[k]
       IN applyAllowed(IF field \in DOMAIN updates
                         THEN [user EXCEPT ![field] = updates[field]]
                         ELSE user,
                       updates, k + 1)

\* variant: a refused update ends the Session
updateProfileFailedClearing(userId, error) ==
  /\ observed' = <<Observation(currentUser, localStorage)>>
  /\ emitted' = <<Event("user.profile.update.failed", [error |-> error])>>
  /\ audit' = <<>>
  /\ last' = Threw("updateProfile", error)
  /\ logoutMemory
  /\ localStorage' = logoutStorage(localStorage)

\* variant: a refused update is announced as an update
updateProfileFailedAnnounced(userId, error) ==
  /\ observed' = <<Observation(currentUser, localStorage), Observation(currentUser, localStorage)>>
  /\ emitted' = <<Event("user.profile.updated", [userId |-> userId]),
                  Event("user.profile.update.failed", [error |-> error])>>
  /\ audit' = <<>>
  /\ last' = Threw("updateProfile", error)
  /\ UNCHANGED <<memory, localStorage>>

\* catch (error) { emit('user.profile.update.failed', ...); throw error }
updateProfileFailed(userId, error) ==
  /\ observed' = <<Observation(currentUser, localStorage)>>
  /\ emitted' = <<Event("user.profile.update.failed", [error |-> error])>>
  /\ audit' = <<>>
  /\ last' = Threw("updateProfile", error)
  /\ UNCHANGED <<memory, localStorage>>

UpdateProfile(overlap, userId, updates) ==
  /\ CanStart(overlap)
  /\ LET users == getStoredUsers(localStorage)
         HasId(u) == u.id = userId
         userIndex == findIndex([k \in DOMAIN users |-> HasId(users[k])])
     IN IF ~isAuthenticated \/ Get(currentUser).id # userId
          THEN updateProfileFailed(userId, MSG_UNAUTHORIZED)
        ELSE IF userIndex = 0
          THEN updateProfileFailed(userId, MSG_USER_NOT_FOUND)
        ELSE LET user == [applyAllowed(users[userIndex], updates, 1) EXCEPT !.updatedAt = now]
             IN /\ localStorage' = [localStorage EXCEPT
                                      !.users = [users EXCEPT ![userIndex] = user],
                                      !.wantok_user = Some(sanitizeUser(user))]
                /\ currentUser' = Some(sanitizeUser(user))
                /\ UNCHANGED <<accessToken, refreshToken, tokenExpiresAt>>
                /\ audit' = <<logAction(userId, "profile_update")>>
                /\ observed' = <<Observation(currentUser', localStorage')>>
                /\ emitted' = <<Event("user.profile.updated",
                                  [userId |-> userId, email |-> user.email])>>
                /\ last' = Returned("updateProfile", Some(sanitizeUser(user)))
  /\ before' = Snapshot
  /\ UNCHANGED <<passwordOf, bus, passwordResets, now, nextId, clockSteps, lastCheck, loginAttempts, pending>>

(***************************************************************************)
(* requestPasswordReset(request)                                           *)
(***************************************************************************)
\* variant: the token does not depend on the request
generateResetTokenFixed(userId, id) == [userId |-> userId, unique |-> 0]

\* generateResetToken(userId): `reset_${userId}_${generateUniqueId()}`
generateResetToken(userId, id) == [userId |-> userId, unique |-> id]

\* requestPasswordReset has no await: it runs to its end when called
RequestPasswordReset(overlap, email) ==
  /\ CanStart(overlap)
  /\ LET user == findUserByEmail(localStorage, email)
     IN IF ~IsSome(user)
          THEN /\ UNCHANGED <<localStorage, nextId, passwordResets>>
               /\ observed' = <<>>
               /\ emitted' = <<>>
               /\ audit' = <<>>
          ELSE LET resetToken == generateResetToken(Get(user).id, nextId)
               IN /\ IdsLeft(1)
                  /\ nextId' = nextId + 1
                  /\ localStorage' =
                       [localStorage EXCEPT !.password_reset_tokens =
                          Put(@, Get(user).id,
                              [token |-> resetToken,
                               expiresAt |-> now + RESET_TOKEN_EXPIRY])]
                  /\ passwordResets' = [passwordResets EXCEPT !.sent =
                                          Append(@, [token |-> resetToken, at |-> now])]
                  /\ audit' = <<logAction(Get(user).id, "form_submission")>>
                  /\ observed' = <<Observation(currentUser, localStorage')>>
                  /\ emitted' = <<Event("user.password.reset.requested",
                                    [userId |-> Get(user).id, email |-> email])>>
  /\ last' = Returned("requestPasswordReset", Some(TRUE))
  /\ before' = Snapshot
  /\ UNCHANGED <<passwordOf, bus, now, clockSteps, lastCheck, memory, loginAttempts, pending>>

(***************************************************************************)
(* resetPassword(payload)                                                  *)
(***************************************************************************)
\* variant: the expiry is not looked at
verifyResetTokenForever(ls, token) ==
  LET requests == ls.password_reset_tokens
      matching == {u \in DOMAIN requests : requests[u].token = token}
  IN IF matching = {} THEN None ELSE Some(CHOOSE u \in matching : TRUE)

\* verifyResetToken(token): the user whose stored request has this token and
\* has not expired.  A token contains the id of its user, so at most one
\* request matches and the order of the for..in loop does not matter.
verifyResetToken(ls, token) ==
  LET requests == ls.password_reset_tokens
      matching == {u \in DOMAIN requests :
                     requests[u].token = token /\ now <= requests[u].expiresAt}
  IN IF matching = {} THEN None ELSE Some(CHOOSE u \in matching : TRUE)

\* catch (error) { emit('auth.password.reset.failed', ...); throw error }
resetPasswordFailed(error) ==
  /\ observed' = <<Observation(currentUser, localStorage)>>
  /\ emitted' = <<Event("auth.password.reset.failed", [error |-> error])>>
  /\ audit' = <<>>
  /\ last' = Threw("resetPassword", error)
  /\ UNCHANGED <<localStorage, nextId, pending, passwordResets>>

\* resetPassword up to its await (the digest inside hashPassword); the list
\* of users it will write back is read here
ResetPasswordBegin(overlap, token, newPassword, confirmPassword) ==
  /\ CanStart(overlap)
  /\ LET userId == verifyResetToken(localStorage, token)
         users == getStoredUsers(localStorage)
         HasId(u) == u.id = Get(userId)
         userIndex == findIndex([k \in DOMAIN users |-> HasId(users[k])])
     IN IF newPassword # confirmPassword
          THEN resetPasswordFailed(MSG_PASSWORD_MISMATCH)
        ELSE IF ~isPasswordStrong(newPassword)
          THEN resetPasswordFailed(MSG_WEAK_PASSWORD)
        ELSE IF ~IsSome(userId)
          THEN resetPasswordFailed(MSG_INVALID_TOKEN)
        ELSE IF userIndex = 0
          THEN resetPasswordFailed(MSG_USER_NOT_FOUND)
        ELSE /\ IdsLeft(1)
             /\ nextId' = nextId + 1
             /\ pending' = Append(pending,
                   [op |-> "resetPassword", token |-> token, userId |-> Get(userId),
                    users |-> users, userIndex |-> userIndex,
                    newPassword |-> newPassword, salt |-> nextId,
                    before |-> Snapshot])
             /\ observed' = <<>>
             /\ emitted' = <<>>
             /\ audit' = <<>>
             /\ last' = Awaiting("resetPassword")
             /\ UNCHANGED <<localStorage, passwordResets>>
  /\ before' = Snapshot
  /\ UNCHANGED <<passwordOf, bus, now, clockSteps, lastCheck, memory, loginAttempts>>

\* resetPassword from its await on
ResetPasswordEnd(i) ==
  /\ i \in DOMAIN pending
  /\ pending[i].op = "resetPassword"
  /\ LET call == pending[i]
         user == [call.users[call.userIndex] EXCEPT
                    !.password = hashPassword(call.newPassword, call.salt),
                    !.updatedAt = now]
     IN /\ pending' = RemoveAt(pending, i)
        /\ before' = call.before
        /\ localStorage' =
             [localStorage EXCEPT
                !.users = [call.users EXCEPT ![call.userIndex] = user],
                !.password_reset_tokens = Delete(@, call.userId)]
        /\ passwordResets' = [passwordResets EXCEPT !.completed = @ \cup {call.token}]
        /\ audit' = <<logAction(call.userId, "profile_update")>>
        /\ observed' = <<Observation(currentUser, localStorage')>>
        /\ emitted' = <<Event("user.password.reset.completed",
                          [userId |-> call.userId, email |-> user.email])>>
        /\ last' = Returned("resetPassword", Some(TRUE))
        /\ passwordOf' = Put(passwordOf, call.userId, call.newPassword)
  /\ UNCHANGED <<bus, now, nextId, clockSteps, lastCheck, memory, loginAttempts>>

(***************************************************************************)
(* The calls the model makes                                               *)
(***************************************************************************)
Payload(email, password, confirmPassword, tinNumber, role) ==
  [email |-> email, password |-> password, confirmPassword |-> confirmPassword,
   businessName |-> None, tinNumber |-> tinNumber, role |-> role]

PayloadA == Payload(EmailA, PwdOne, PwdOne, <<>>, None)
PayloadAUpper == Payload(EmailAUpper, PwdTwo, PwdTwo, <<>>, None)
PayloadB == Payload(EmailB, PwdTwo, PwdTwo, TinGood, Some(ROLE_BUSINESS))

\* one payload for every way validateRegistrationPayload can end
RegisterPayloads ==
  { PayloadA, PayloadAUpper, PayloadB,
    Payload(EmailBad, PwdOne, PwdOne, <<>>, None),
    Payload(EmailB, PwdWeak, PwdWeak, <<>>, None),
    Payload(EmailB, PwdOne, PwdTwo, <<>>, None),
    Payload(EmailB, PwdOne, PwdOne, TinBad, None),
    Payload(EmailB, PwdOne, <<>>, <<>>, None) }

Login(email, password, rememberMe) ==
  [email |-> email, password |-> password, rememberMe |-> rememberMe]

\* whether some stored user has this email, ignoring case
IsStored(email) == IsSome(findUserByEmail(localStorage, email))

Completions ==
  \/ \E i \in DOMAIN pending : LoginEnd(i)
  \/ \E i \in DOMAIN pending : RegisterEnd(i)

(***************************************************************************)
(* Spec: the life of a session.  Calls are made one at a time (the caller  *)
(* awaits each before the next) by users who log in with their own         *)
(* password; the interval timer and the clock run in between.              *)
(***************************************************************************)
SessionPayloads == {PayloadA, PayloadB}
SessionLogins == {Login(EmailA, PwdOne, FALSE), Login(EmailB, PwdTwo, TRUE)}
SessionClockSteps == {1, ACCESS_TOKEN_EXPIRY, REFRESH_TOKEN_EXPIRY}

Next ==
  \/ \E payload \in SessionPayloads : RegisterBegin(FALSE, payload)
  \/ \E c \in SessionLogins :
       IsStored(c.email) /\ LoginBegin(FALSE, c.email, c.password, c.rememberMe)
  \/ Logout(FALSE)
  \/ RefreshAccessToken(FALSE)
  \/ Completions
  \/ CheckTokenExpiration
  \/ \E d \in SessionClockSteps : Tick(d)

Spec == Init /\ [][Next]_vars

(***************************************************************************)
(* SpecLimiter: the rate limiter.  One account and every kind of login     *)
(* against it and against an email nobody registered (that one while the   *)
(* account has no attempts counted), around the end of the lockout window. *)
(***************************************************************************)
LimiterLogins ==
  { Login(EmailA, PwdOne, FALSE), Login(EmailA, PwdTwo, FALSE),
    Login(EmailB, PwdOne, FALSE) }
LimiterClockSteps == {1, LOCKOUT_DURATION - 1}

NextLimiter ==
  \/ RegisterBegin(FALSE, PayloadA)
  \/ \E c \in LimiterLogins :
       /\ c.email = EmailB => EmailA \notin DOMAIN loginAttempts
       /\ LoginBegin(FALSE, c.email, c.password, c.rememberMe)
  \/ Completions
  \/ \E d \in LimiterClockSteps : Tick(d)

SpecLimiter == Init /\ [][NextLimiter]_vars

(***************************************************************************)
(* SpecRegister: registration with every kind of payload.                  *)
(***************************************************************************)
NextRegister ==
  \/ \E payload \in RegisterPayloads : RegisterBegin(FALSE, payload)
  \/ \E i \in DOMAIN pending : RegisterEnd(i)
  \/ Logout(FALSE)

SpecRegister == Init /\ [][NextRegister]_vars

(***************************************************************************)
(* SpecOverlap: calls that overlap at their awaits.                        *)
(***************************************************************************)
OverlapLogins == {Login(EmailA, PwdOne, FALSE), Login(EmailA, PwdTwo, FALSE)}

NextOverlap ==
  \/ \E payload \in {PayloadA, PayloadAUpper} : RegisterBegin(TRUE, payload)
  \/ \E c \in OverlapLogins : LoginBegin(TRUE, c.email, c.password, c.rememberMe)
  \/ Logout(TRUE)
  \/ Completions

SpecOverlap == Init /\ [][NextOverlap]_vars


\* Logins for one identity that overlap at their password check
NextLoginRace ==
  \/ RegisterBegin(FALSE, PayloadA)
  \/ \E c \in OverlapLogins : LoginBegin(TRUE, c.email, c.password, c.rememberMe)
  \/ Completions

SpecLoginRace == Init /\ [][NextLoginRace]_vars

\* Password resets that overlap with each other and with other writers of
\* the user store
SentResetTokens == {passwordResets.sent[k].token : k \in DOMAIN passwordResets.sent}

ProfileUpdates == {[firstName |-> Some("Ann")]}

NextResetOverlap ==
  \/ \E payload \in {PayloadA, PayloadB} : RegisterBegin(TRUE, payload)
  \/ RequestPasswordReset(TRUE, EmailA)
  \/ \E token \in SentResetTokens : ResetPasswordBegin(TRUE, token, PwdTwo, PwdTwo)
  \/ \E updates \in ProfileUpdates :
       IsSome(currentUser) /\ UpdateProfile(TRUE, Get(currentUser).id, updates)
  \/ \E userId \in DOMAIN localStorage.email_verification_tokens :
       VerifyEmail(TRUE, userId, localStorage.email_verification_tokens[userId].token)
  \/ \E i \in DOMAIN pending : RegisterEnd(i)
  \/ \E i \in DOMAIN pending : ResetPasswordEnd(i)

SpecResetOverlap == Init /\ [][NextResetOverlap]_vars

\* Password resets one call at a time, with tokens of every kind
UnknownResetToken == [userId |-> 0, unique |-> 0]

ResetEmails == {EmailA, EmailAUpper, EmailB}

ResetPasswords == {<<PwdTwo, PwdTwo>>, <<PwdTwo, PwdOne>>, <<PwdWeak, PwdWeak>>}

ResetClockSteps == {1, RESET_TOKEN_EXPIRY}

NextReset ==
  \/ RegisterBegin(FALSE, PayloadA)
  \/ \E email \in ResetEmails :
       /\ Len(passwordResets.sent) < MaxResetRequests
       /\ RequestPasswordReset(FALSE, email)
  \/ \E token \in SentResetTokens \cup {UnknownResetToken}, p \in ResetPasswords :
       ResetPasswordBegin(FALSE, token, p[1], p[2])
  \/ \E i \in DOMAIN pending : RegisterEnd(i)
  \/ \E i \in DOMAIN pending : ResetPasswordEnd(i)
  \/ \E d \in ResetClockSteps : Tick(d)

SpecReset == Init /\ [][NextReset]_vars

\* Email verifications with ids and tokens of every kind, between
\* registrations and password resets that may overlap
UnknownUserId == 0

WrongVerificationToken == 0

VerifyUserIds == DOMAIN localStorage.email_verification_tokens \cup {UnknownUserId}

VerifyTokens ==
  {localStorage.email_verification_tokens[u].token :
     u \in DOMAIN localStorage.email_verification_tokens} \cup {WrongVerificationToken}

VerifyClockSteps == {VERIFICATION_TOKEN_EXPIRY + 1}

NextVerify ==
  \/ RegisterBegin(FALSE, PayloadA)
  \/ RegisterBegin(TRUE, PayloadB)
  \/ /\ Len(passwordResets.sent) < MaxResetRequests
     /\ RequestPasswordReset(FALSE, EmailA)
  \/ \E token \in SentResetTokens : ResetPasswordBegin(FALSE, token, PwdTwo, PwdTwo)
  \/ \E userId \in VerifyUserIds, token \in VerifyTokens : VerifyEmail(FALSE, userId, token)
  \/ \E i \in DOMAIN pending : RegisterEnd(i)
  \/ \E i \in DOMAIN pending : ResetPasswordEnd(i)
  \/ \E d \in VerifyClockSteps : Tick(d)

SpecVerify == Init /\ [][NextVerify]_vars

\* Profile updates by the owner of the Session, by others and by nobody, with
\* updates that name allowed and protected fields; an email verification may
\* arrive while a login is suspended
HostileUpdates ==
  [id |-> UnknownUserId, email |-> EmailB, role |-> ROLE_ADMIN, verified |-> TRUE,
   password |-> hashPassword(PwdWeak, 0), updatedAt |-> 0,
   firstName |-> Some("Eve"), phoneNumber |-> Some("7")]

ProfileUpdateInputs == {HostileUpdates}

ProfileUserIds ==
  {getStoredUsers(localStorage)[k].id : k \in DOMAIN getStoredUsers(localStorage)}
    \cup {UnknownUserId}

ProfileClockSteps == {ACCESS_TOKEN_EXPIRY}

NextProfile ==
  \/ \E payload \in {PayloadA, PayloadB} : RegisterBegin(FALSE, payload)
  \/ IsStored(EmailA) /\ LoginBegin(FALSE, EmailA, PwdOne, FALSE)
  \/ Completions
  \/ Logout(FALSE)
  \/ \E userId \in DOMAIN localStorage.email_verification_tokens :
       VerifyEmail(TRUE, userId, localStorage.email_verification_tokens[userId].token)
  \/ \E userId \in ProfileUserIds, updates \in ProfileUpdateInputs :
       UpdateProfile(FALSE, userId, updates)
  \/ \E d \in ProfileClockSteps : Tick(d)

SpecProfile == Init /\ [][NextProfile]_vars

\* The interval timer on time: while the page is open the clock never passes
\* a moment at which the callback is due without the callback running.  The
\* page may be closed and loaded again later, which starts a new interval.
TimerDowntimes == {0, ACCESS_TOKEN_EXPIRY - CHECK_INTERVAL \div 2}

\* the clock advances to the moment the callback is next due
TimerWait ==
  /\ now < lastCheck + CHECK_INTERVAL
  /\ Tick(lastCheck + CHECK_INTERVAL - now)

NextTimer ==
  \/ RegisterBegin(FALSE, PayloadA)
  \/ IsStored(EmailA) /\ LoginBegin(FALSE, EmailA, PwdOne, FALSE)
  \/ Completions
  \/ Logout(FALSE)
  \/ \E d \in TimerDowntimes : Restart(d)
  \/ TimerWait
  \/ CheckTokenExpiration

SpecTimer ==
  /\ Init
  /\ [][NextTimer]_vars
  /\ WF_vars(TimerWait)
  /\ WF_vars(CheckTokenExpiration)

\* Page loads with whatever an earlier run of the service left in
\* localStorage, complete or not, fresh or expired
RestartDowntimes == {1, ACCESS_TOKEN_EXPIRY, REFRESH_TOKEN_EXPIRY}

NextRestart ==
  \/ RegisterBegin(FALSE, PayloadA)
  \/ \E i \in DOMAIN pending : RegisterEnd(i)
  \/ Logout(FALSE)
  \/ \E key \in SessionKeys : RemoveItem(key)
  \/ \E d \in RestartDowntimes : Restart(d)

SpecRestart == Init /\ [][NextRestart]_vars

\* The EventBus with listeners of every kind on one event and plain ones on
\* another
BusSubscriptions ==
  { <<"user.registered", "plain">>, <<"user.registered", "throwing">>,
    <<"user.registered", "once">>, <<"user.registered", "chaining">>,
    <<"user.loggedout", "plain">> }

BusEvents == {"user.registered", "user.loggedout", "user.loggedin"}

NextBus ==
  \/ \E sub \in BusSubscriptions : On(sub[1], sub[2])
  \/ \E sub \in BusSubscriptions : Unsubscribe(sub[1], sub[2])
  \/ \E event \in BusEvents : Off(event)
  \/ \E event \in BusEvents : Emit(event)

SpecBus == Init /\ [][NextBus]_vars

\* The EventBus with unsubscribe functions called before and after off and
\* clear
NextUnsubscribe ==
  \/ NextBus
  \/ Clear

SpecUnsubscribe == Init /\ [][NextUnsubscribe]_vars

\* Every operation that writes to the audit trail, called one at a time with
\* inputs that succeed and inputs that fail: a password is reset by a user
\* who is logged out, a profile updated and the clock watched by one who is
\* logged in, and a Session outlives its refresh token
AuditEmails == {EmailA, EmailB}

AuditClockSteps == {REFRESH_TOKEN_EXPIRY}

NextAudit ==
  \/ RegisterBegin(FALSE, PayloadA)
  \/ IsStored(EmailA) /\ LoginBegin(FALSE, EmailA, PwdOne, FALSE)
  \/ Completions
  \/ Logout(FALSE)
  \/ RefreshAccessToken(FALSE)
  \/ \E email \in AuditEmails :
       /\ ~IsSome(currentUser)
       /\ Len(passwordResets.sent) < MaxResetRequests
       /\ RequestPasswordReset(FALSE, email)
  \/ \E token \in SentResetTokens \cup {UnknownResetToken} :
       ~IsSome(currentUser) /\ ResetPasswordBegin(FALSE, token, PwdOne, PwdOne)
  \/ \E i \in DOMAIN pending : ResetPasswordEnd(i)
  \/ \E userId \in VerifyUserIds, token \in VerifyTokens : VerifyEmail(FALSE, userId, token)
  \/ \E userId \in ProfileUserIds :
       IsSome(currentUser) /\ UpdateProfile(FALSE, userId, HostileUpdates)
  \/ \E d \in AuditClockSteps : IsSome(currentUser) /\ Tick(d)

SpecAudit == Init /\ [][NextAudit]_vars

\* Logins with the present and with a former password, typed in either case,
\* one call at a time, for accounts whose password is reset
CredentialPayloads == {PayloadA, PayloadAUpper}

CredentialLogins ==
  { Login(EmailA, PwdOne, FALSE), Login(EmailA, PwdTwo, FALSE),
    Login(EmailAUpper, PwdTwo, FALSE) }

NextCredentials ==
  \/ \E payload \in CredentialPayloads : RegisterBegin(FALSE, payload)
  \/ \E c \in CredentialLogins : LoginBegin(FALSE, c.email, c.password, c.rememberMe)
  \/ Completions
  \/ /\ Len(passwordResets.sent) < MaxResetRequests
     /\ RequestPasswordReset(FALSE, EmailA)
  \/ \E token \in SentResetTokens : ResetPasswordBegin(FALSE, token, PwdTwo, PwdTwo)
  \/ \E i \in DOMAIN pending : ResetPasswordEnd(i)

SpecCredentials == Init /\ [][NextCredentials]_vars

\* Logins against one account with the email typed in either case, around
\* the end of the lockout window
IdentityLogins ==
  { Login(EmailA, PwdTwo, FALSE), Login(EmailAUpper, PwdTwo, FALSE),
    Login(EmailA, PwdOne, FALSE) }

IdentityClockSteps == {1, LOCKOUT_DURATION - 1}

NextIdentity ==
  \/ RegisterBegin(FALSE, PayloadA)
  \/ \E c \in IdentityLogins : LoginBegin(FALSE, c.email, c.password, c.rememberMe)
  \/ Completions
  \/ \E d \in IdentityClockSteps : Tick(d)

SpecIdentity == Init /\ [][NextIdentity]_vars

\* The page is loaded again right after a call has completed, with fresh
\* and with expired tokens
RehydrateClockSteps == {ACCESS_TOKEN_EXPIRY, REFRESH_TOKEN_EXPIRY}

NextRehydrate ==
  \/ RegisterBegin(FALSE, PayloadA)
  \/ IsStored(EmailA) /\ LoginBegin(FALSE, EmailA, PwdOne, TRUE)
  \/ Completions
  \/ Logout(FALSE)
  \/ RefreshAccessToken(FALSE)
  \/ \E userId \in ProfileUserIds :
       IsSome(currentUser) /\ UpdateProfile(FALSE, userId, HostileUpdates)
  \/ \E d \in RehydrateClockSteps : Tick(d)
  \/ Restart(0)

SpecRehydrate == Init /\ [][NextRehydrate]_vars

\* Calls that fail and calls that succeed, one at a time, with two accounts
FailurePayloads == {PayloadA, PayloadB}

FailureLogins ==
  { Login(EmailA, PwdOne, FALSE), Login(EmailA, PwdTwo, FALSE),
    Login(EmailB, PwdOne, FALSE) }

NextFailures ==
  \/ \E payload \in FailurePayloads : RegisterBegin(FALSE, payload)
  \/ \E c \in FailureLogins : LoginBegin(FALSE, c.email, c.password, c.rememberMe)
  \/ Completions
  \/ /\ Len(passwordResets.sent) < MaxResetRequests
     /\ RequestPasswordReset(FALSE, EmailA)
  \/ \E token \in SentResetTokens \cup {UnknownResetToken}, confirmPassword \in {PwdOne, PwdTwo} :
       ResetPasswordBegin(FALSE, token, PwdOne, confirmPassword)
  \/ \E i \in DOMAIN pending : ResetPasswordEnd(i)
  \/ \E userId \in ProfileUserIds : UpdateProfile(FALSE, userId, HostileUpdates)

SpecFailures == Init /\ [][NextFailures]_vars

\* Refreshes by the caller and by the timer up to the last moment of the
\* refresh token
LifetimeClockSteps == {1, REFRESH_TOKEN_EXPIRY - 1}

NextLifetimes ==
  \/ RegisterBegin(FALSE, PayloadA)
  \/ \E rememberMe \in BOOLEAN :
       IsStored(EmailA) /\ LoginBegin(FALSE, EmailA, PwdOne, rememberMe)
  \/ Completions
  \/ Logout(FALSE)
  \/ RefreshAccessToken(FALSE)
  \/ CheckTokenExpiration
  \/ \E d \in LifetimeClockSteps : Tick(d)

SpecLifetimes == Init /\ [][NextLifetimes]_vars

\* Refreshes by the caller and by the timer while other calls are suspended
RefreshClockSteps == {ACCESS_TOKEN_EXPIRY - REFRESH_HORIZON + 1}

NextRefresh ==
  \/ RegisterBegin(FALSE, PayloadA)
  \/ IsStored(EmailA) /\ LoginBegin(TRUE, EmailA, PwdOne, FALSE)
  \/ Completions
  \/ RefreshAccessToken(TRUE)
  \/ CheckTokenExpiration
  \/ \E d \in RefreshClockSteps : Tick(d)

SpecRefresh == Init /\ [][NextRefresh]_vars

(***************************************************************************)
(* Properties                                                              *)
(***************************************************************************)
\* a non-expired access token is held
HoldsValidToken ==
  IsSome(accessToken) /\ IsSome(tokenExpiresAt) /\ now < Get(tokenExpiresAt)

\* the limiter's counter of email has reached the threshold and less than
\* the lockout window has passed since its last recorded attempt
LockedOut(email) ==
  /\ email \in DOMAIN loginAttempts
  /\ loginAttempts[email].count >= 5
  /\ now - loginAttempts[email].lastAttempt < 15 * MINUTE

\* the counter of email has reached the threshold and the window is over
LockoutOver(email) ==
  /\ email \in DOMAIN loginAttempts
  /\ loginAttempts[email].count >= 5
  /\ now - loginAttempts[email].lastAttempt >= 15 * MINUTE

\* the last recorded attempt of email is at least the lockout window old
WindowElapsed(email) ==
  /\ email \in DOMAIN loginAttempts
  /\ now - loginAttempts[email].lastAttempt >= 15 * MINUTE

\* password is the one the stored record of user was last hashed from
IsPasswordOf(password, user) == user.password.hash.password = password

LoginBeginOf(c) == LoginBegin(FALSE, c.email, c.password, c.rememberMe)

ThrewRateLimited(l) == l.op = "login" /\ l.status = "threw" /\ l.error = MSG_RATE_LIMITED

LoginFailedEvent(email, error) ==
  [event |-> "auth.login.failed", data |-> [email |-> email, error |-> error]]

\* C1: in every reachable state a Session is held (getCurrentUser() is
\* non-null) if and only if a non-expired access token is held.
C1_SessionIffValidToken == IsSome(getCurrentUser) <=> HoldsValidToken

\* C2: login fails with RateLimited exactly when the counter of its email
\* is at 5 or more and less than 15 minutes have passed since the last
\* recorded attempt, whatever the password; such a login installs no
\* Session: memory, storage and the suspended calls stay as they were.
C2_RateLimitedExactlyWhenLockedOut ==
  [][\A c \in LimiterLogins :
       LoginBeginOf(c) =>
         /\ ThrewRateLimited(last') <=> LockedOut(c.email)
         /\ LockedOut(c.email) =>
              /\ UNCHANGED <<memory, localStorage, pending>>
              /\ emitted' = <<LoginFailedEvent(c.email, MSG_RATE_LIMITED)>>]_vars

\* the sixth login of a registered user, with five failures inside the window
C2_Witness ==
  /\ ThrewRateLimited(last)
  /\ emitted = <<LoginFailedEvent(EmailA, MSG_RATE_LIMITED)>>
  /\ IsStored(EmailA)
  /\ EmailA \in DOMAIN before.loginAttempts
  /\ before.loginAttempts[EmailA].count = 5
  /\ now - before.loginAttempts[EmailA].lastAttempt < 15 * MINUTE

\* C3: once 15 minutes have passed since the last recorded attempt of a
\* locked-out identity, a login passes the limiter, and with the correct
\* password it succeeds and leaves no counter entry for the identity.
C3_LoginAfterLockoutSucceeds ==
  [][/\ \A c \in LimiterLogins :
          (LoginBeginOf(c) /\ LockoutOver(c.email)) =>
             /\ ~ThrewRateLimited(last')
             /\ IsStored(c.email) => last' = Awaiting("login")
     /\ \A i \in DOMAIN pending :
          (LoginEnd(i) /\ IsPasswordOf(pending[i].password, pending[i].user)) =>
             /\ last'.op = "login" /\ last'.status = "returned"
             /\ IsSome(currentUser') /\ Get(currentUser').email = pending[i].user.email
             /\ isAuthenticated'
             /\ pending[i].email \notin DOMAIN loginAttempts']_vars

\* a login that succeeded although the identity's counter stood at 5
C3_Witness ==
  /\ last.op = "login" /\ last.status = "returned"
  /\ EmailA \in DOMAIN before.loginAttempts
  /\ before.loginAttempts[EmailA].count >= 5
  /\ now - before.loginAttempts[EmailA].lastAttempt >= 15 * MINUTE
  /\ IsSome(currentUser) /\ Get(currentUser).email = EmailA
  /\ EmailA \notin DOMAIN loginAttempts

C5_StaleFailuresDoNotCount ==
  [][/\ \A c \in LimiterLogins :
          (LoginBeginOf(c) /\ WindowElapsed(c.email)) =>
             (c.email \in DOMAIN loginAttempts' /\ loginAttempts'[c.email].count = 1)
     /\ \A i \in DOMAIN pending :
          (LoginEnd(i) /\ last'.status = "returned") =>
             pending[i].email \notin DOMAIN loginAttempts']_vars


\* no two stored records have emails that are equal ignoring case
EmailsUniqueIgnoringCase(users) ==
  \A i, j \in DOMAIN users :
    i # j => toLowerCase(users[i].email) # toLowerCase(users[j].email)

\* C6: register (with a payload that passes validation) fails with Conflict
\* and creates no record whenever a stored user has the same email ignoring
\* case, so no two stored records ever have emails equal ignoring case.
C6_RegisterRejectsCaseVariant ==
  [][/\ \A payload \in RegisterPayloads :
          (/\ RegisterBegin(FALSE, payload)
           /\ validateRegistrationPayload(payload) = ""
           /\ IsStored(payload.email)) =>
             /\ last' = Threw("register", "Email is already registered")
             /\ UNCHANGED <<pending, localStorage>>
     /\ EmailsUniqueIgnoringCase(getStoredUsers(localStorage'))]_vars

\* C7: also when register calls for one email overlap, at most one record
\* with that email is persisted.
C7_OneRecordPerEmail ==
  \A i, j \in DOMAIN getStoredUsers(localStorage) :
    i # j => getStoredUsers(localStorage)[i].email # getStoredUsers(localStorage)[j].email

\* the limiter's table after one more attempt of email at the present time
OneMoreAttempt(attempts, email) ==
  Put(attempts, email,
      [count |-> IF email \in DOMAIN attempts /\ ~LockoutOver(email)
                   THEN attempts[email].count + 1
                   ELSE 1,
       lastAttempt |-> now])

\* what a caller and a subscriber see of a login that failed on credentials
InvalidCredentialsSeen(email) ==
  /\ last' = Threw("login", "Invalid email or password")
  /\ emitted' = <<LoginFailedEvent(email, "Invalid email or password")>>
  /\ audit' = <<>>
  /\ UNCHANGED <<memory, localStorage>>

\* C8: a login that fails on its credentials looks the same whether the
\* email is registered or not.  The attempt is recorded when the login
\* passes the limiter, registered or not; the failure itself (at once for
\* an unknown email, after the password check for a wrong password) raises
\* the same message, emits the same event and changes nothing else.
C8_FailedLoginDoesNotRevealUser ==
  [][/\ \A c \in LimiterLogins :
          (LoginBeginOf(c) /\ ~LockedOut(c.email)) =>
             /\ loginAttempts' = OneMoreAttempt(loginAttempts, c.email)
             /\ last'.status = "threw" => InvalidCredentialsSeen(c.email)
             /\ ~IsStored(c.email) => last'.status = "threw"
     /\ \A i \in DOMAIN pending :
          (LoginEnd(i) /\ ~IsPasswordOf(pending[i].password, pending[i].user)) =>
             /\ InvalidCredentialsSeen(pending[i].email)
             /\ UNCHANGED loginAttempts]_vars

\* a wrong password for a registered email, seen as an unknown email is
C8_Witness ==
  /\ last = Threw("login", "Invalid email or password")
  /\ emitted = <<LoginFailedEvent(EmailA, "Invalid email or password")>>
  /\ IsStored(EmailA)
  /\ Len(pending) = 0
  /\ EmailA \in DOMAIN before.loginAttempts
  /\ loginAttempts = OneMoreAttempt(before.loginAttempts, EmailA)

\* C9: a successful login installs a Session of exactly the user who logged
\* in, replacing all of any earlier Session in memory and in storage, and
\* emits user.loggedin once, with that user's id and email.
C9_LoginInstallsSession ==
  [][\A i \in DOMAIN pending :
       (LoginEnd(i) /\ last'.status = "returned") =>
          LET user == pending[i].user
          IN /\ toLowerCase(user.email) = toLowerCase(pending[i].email)
             /\ currentUser' = Some(sanitizeUser(user))
             /\ "password" \notin DOMAIN Get(currentUser')
             /\ IsSome(accessToken') /\ accessToken' # accessToken
             /\ Get(accessToken').payload.userId = user.id
             /\ IsSome(refreshToken') /\ refreshToken' # refreshToken
             /\ Get(refreshToken').payload.userId = user.id
             /\ tokenExpiresAt' = Some(now + 60 * MINUTE)
             /\ localStorage'.wantok_user = currentUser'
             /\ localStorage'.wantok_auth_token = accessToken'
             /\ localStorage'.wantok_refresh_token = refreshToken'
             /\ localStorage'.wantok_token_expires = tokenExpiresAt'
             /\ last'.value = Some([user |-> Get(currentUser'),
                                    accessToken |-> Get(accessToken'),
                                    refreshToken |-> refreshToken',
                                    expiresAt |-> Get(tokenExpiresAt')])
             /\ emitted' = <<[event |-> "user.loggedin",
                              data |-> [userId |-> user.id, email |-> user.email]]>>]_vars

\* a login that replaced the Session of another user
C9_Witness ==
  /\ last.op = "login" /\ last.status = "returned"
  /\ IsSome(before.currentUser) /\ IsSome(currentUser)
  /\ Get(before.currentUser).id # Get(currentUser).id
  /\ Get(accessToken).payload.userId = Get(currentUser).id
  /\ localStorage.wantok_user = currentUser

\* a step in which refreshAccessToken() gets as far as installing a token
RefreshSucceeds ==
  /\ refreshProceeds
  /\ \/ RefreshAccessToken(FALSE)
     \/ CheckTokenExpiration /\ checkNeedsRefresh

RefreshedEvent == [event |-> "auth.token.refreshed",
                   data |-> [userId |-> Get(currentUser).id]]

\* C10 as claimed: every successful refreshAccessToken() installs a new
\* access token whose expiry is strictly later than the expiry of the one
\* it replaces; the refresh token and the user are unchanged and
\* auth.token.refreshed is emitted.
C10_RefreshExpiryStrictlyLater ==
  [][RefreshSucceeds =>
       /\ accessToken' # accessToken
       /\ Get(tokenExpiresAt') > Get(tokenExpiresAt)
       /\ UNCHANGED <<refreshToken, currentUser>>
       /\ emitted' = <<RefreshedEvent>>]_vars

\* C10 amended: every successful refreshAccessToken() installs a new access
\* token that expires one hour from now: never earlier than the token it
\* replaces, and strictly later exactly when the clock has advanced since
\* that token was issued; the refresh token and the user are unchanged and
\* auth.token.refreshed is emitted.
C10_RefreshExpiryNotEarlier ==
  [][RefreshSucceeds =>
       /\ accessToken' # accessToken
       /\ Get(tokenExpiresAt') = now + 60 * MINUTE
       /\ Get(tokenExpiresAt') >= Get(tokenExpiresAt)
       /\ Get(tokenExpiresAt') > Get(tokenExpiresAt)
            <=> now > Get(tokenExpiresAt) - 60 * MINUTE
       /\ localStorage'.wantok_auth_token = accessToken'
       /\ localStorage'.wantok_token_expires = tokenExpiresAt'
       /\ UNCHANGED <<refreshToken, currentUser>>
       /\ emitted' = <<RefreshedEvent>>]_vars

\* a refresh some time after the token it replaced was issued
C10_Witness ==
  /\ last.op = "refreshAccessToken" /\ IsSome(last.value)
  /\ IsSome(before.tokenExpiresAt)
  /\ Get(tokenExpiresAt) > Get(before.tokenExpiresAt)
  /\ refreshToken = before.refreshToken
  /\ currentUser = before.currentUser

\* no Session and no token, in memory or persisted
LoggedOut ==
  /\ currentUser = None /\ accessToken = None
  /\ refreshToken = None /\ tokenExpiresAt = None
  /\ localStorage.wantok_user = None
  /\ localStorage.wantok_auth_token = None
  /\ localStorage.wantok_refresh_token = None
  /\ localStorage.wantok_token_expires = None

\* the Session's refresh token cannot be decoded or its exp has been reached
RefreshTokenRejected ==
  LET payload == decodeToken(Get(refreshToken))
  IN ~IsSome(payload) \/ now >= Get(payload).exp * TicksPerSecond

LoggedOutEvent(user) ==
  [event |-> "user.loggedout", data |-> [userId |-> user.id, email |-> user.email]]

\* what the clock, the limiter, the suspended calls and the stores of users
\* and tokens are
Elsewhere ==
  <<now, loginAttempts, pending, localStorage.users,
    localStorage.password_reset_tokens, localStorage.email_verification_tokens>>

C12_RefreshWithoutSessionIsNoOp ==
  [][(RefreshAccessToken(FALSE) /\ (~IsSome(currentUser) \/ ~IsSome(refreshToken))) =>
        /\ last' = Returned("refreshAccessToken", None)
        /\ UNCHANGED <<memory, localStorage, loginAttempts, pending, now, nextId>>
        /\ emitted' = <<>>
        /\ audit' = <<>>]_vars

\* a refresh called after registered users have logged out
C12_Witness ==
  /\ last = Returned("refreshAccessToken", None)
  /\ before.currentUser = None /\ before.refreshToken = None
  /\ currentUser = None
  /\ Len(localStorage.users) > 0
  /\ emitted = <<>>

\* C13: logout() with a Session clears all session state, in memory and
\* persisted, and emits user.loggedout once; with no Session it changes
\* nothing and emits nothing.  So a second logout() in a row leaves the
\* state of the first.
C13_LogoutIdempotent ==
  [][Logout(FALSE) =>
       /\ LoggedOut'
       /\ Elsewhere' = Elsewhere
       /\ UNCHANGED nextId
       /\ last' = Returned("logout", None)
       /\ IF IsSome(currentUser)
            THEN /\ emitted' = <<LoggedOutEvent(Get(currentUser))>>
                 /\ audit' = <<logAction(Get(currentUser).id, "logout")>>
            ELSE /\ UNCHANGED <<memory, localStorage>>
                 /\ emitted' = <<>>
                 /\ audit' = <<>>]_vars

\* the second of two logouts in a row
C13_Witness ==
  /\ last = Returned("logout", None)
  /\ before.currentUser = None
  /\ LoggedOut
  /\ Len(localStorage.users) > 0
  /\ emitted = <<>>

\* C14: a refresh is never interleaved with another one.  No call is ever
\* suspended inside refreshAccessToken(), the expiry check's refresh is done
\* when the check is, and the access token a refresh returns to its caller
\* is the Session's access token when the call returns, also while logins
\* and registers are suspended.
C14_RefreshNotInterleaved ==
  [][/\ \A i \in DOMAIN pending' : pending'[i].op \in {"login", "register"}
     /\ (RefreshAccessToken(TRUE) /\ IsSome(last'.value)) =>
           /\ accessToken' = Some(Get(last'.value).accessToken)
           /\ tokenExpiresAt' = Some(Get(last'.value).expiresAt)
           /\ localStorage'.wantok_auth_token = accessToken'
           /\ accessToken' # accessToken
     /\ (CheckTokenExpiration /\ checkNeedsRefresh /\ refreshProceeds) =>
           /\ accessToken' # accessToken
           /\ localStorage'.wantok_auth_token = accessToken'
           /\ UNCHANGED pending]_vars

\* a refresh by the caller, made while another call is suspended, right
\* after a refresh by the expiry check
C14_Witness ==
  /\ last.op = "refreshAccessToken" /\ IsSome(last.value)
  /\ Len(pending) > 0
  /\ lastCheck > 0
  /\ accessToken = Some(Get(last.value).accessToken)
  /\ accessToken # before.accessToken

\* C15: logins for one identity that overlap still check and count one
\* after the other.  A login that starts while others are suspended is
\* rejected exactly when the count, with the increments of the suspended
\* ones, is at 5 inside the window; otherwise it raises the count by one and
\* only then goes on to the credentials.  Completing a login never changes
\* the count except for the reset by a success.
C15_OverlappingLoginsCountInTurn ==
  [][/\ \A c \in OverlapLogins :
          LoginBegin(TRUE, c.email, c.password, c.rememberMe) =>
            IF LockedOut(c.email)
              THEN ThrewRateLimited(last') /\ UNCHANGED <<loginAttempts, pending>>
              ELSE /\ loginAttempts' = OneMoreAttempt(loginAttempts, c.email)
                   /\ IsStored(c.email) <=> Len(pending') = Len(pending) + 1
     /\ \A i \in DOMAIN pending :
          LoginEnd(i) =>
            IF last'.status = "returned"
              THEN loginAttempts' = Delete(loginAttempts, pending[i].email)
              ELSE UNCHANGED loginAttempts]_vars

\* a login rejected while the login that brought the count to 5 is still
\* checking its password
C15_Witness ==
  /\ ThrewRateLimited(last)
  /\ Len(pending) > 0
  /\ pending[Len(pending)].op = "login"
  /\ pending[Len(pending)].email = EmailA
  /\ EmailA \in DOMAIN pending[Len(pending)].before.loginAttempts
  /\ pending[Len(pending)].before.loginAttempts[EmailA].count = 4
  /\ loginAttempts[EmailA].count = 5

\* the record as it would be with the password and updatedAt of another
WithPasswordOf(user, other) ==
  [user EXCEPT !.password = other.password, !.updatedAt = other.updatedAt]

\* C16: what updateProfile, verifyEmail or a register has committed to the
\* user store while a resetPassword awaited its hash is still there when
\* the resetPassword completes: completing changes nothing in the store but
\* the password and updatedAt of its own user.
C16_ResetKeepsCommittedWrites ==
  [][\A i \in DOMAIN pending :
       ResetPasswordEnd(i) =>
         LET users == getStoredUsers(localStorage)
             after == getStoredUsers(localStorage')
         IN /\ Len(after) = Len(users)
            /\ \A k \in DOMAIN users :
                 IF users[k].id = pending[i].userId
                   THEN WithPasswordOf(after[k], users[k]) = users[k]
                   ELSE after[k] = users[k]]_vars

\* C17: a reset token authorises at most one successful resetPassword: a
\* use that starts after a success fails with InvalidToken, and a use that
\* was already awaiting its hash when another succeeded does not succeed.
C17_ResetTokenSingleUse ==
  [][/\ \A token \in SentResetTokens :
          (ResetPasswordBegin(TRUE, token, PwdTwo, PwdTwo)
             /\ token \in passwordResets.completed) =>
            last' = Threw("resetPassword", "Invalid or expired reset token")
     /\ \A i \in DOMAIN pending :
          (ResetPasswordEnd(i) /\ last'.status = "returned") =>
            pending[i].token \notin passwordResets.completed]_vars

\* the token is the one most recently mailed for its user, it was mailed no
\* more than 24 hours ago, and no resetPassword has succeeded with it
AcceptableResetToken(token) ==
  \E k \in DOMAIN passwordResets.sent :
    /\ passwordResets.sent[k].token = token
    /\ \A j \in DOMAIN passwordResets.sent :
         (j > k) => passwordResets.sent[j].token.userId # token.userId
    /\ now <= passwordResets.sent[k].at + 24 * 60 * MINUTE
    /\ token \notin passwordResets.completed

\* C18: resetPassword (with passwords that pass validation) accepts a token
\* exactly when it is the one most recently issued for its user, not older
\* than 24 hours and not yet consumed, so at most one token per user is
\* acceptable; any other token fails with InvalidToken, and every failing
\* resetPassword leaves the store, with the passwords, as it was.  A
\* successful one changes the password and consumes the token.
C18_OnlyLatestFreshTokenAccepted ==
  [][/\ \A token \in SentResetTokens \cup {UnknownResetToken} :
          ResetPasswordBegin(FALSE, token, PwdTwo, PwdTwo) =>
            IF AcceptableResetToken(token)
              THEN last' = Awaiting("resetPassword")
              ELSE /\ last' = Threw("resetPassword", "Invalid or expired reset token")
                   /\ UNCHANGED <<localStorage, pending, memory>>
     /\ \A token \in SentResetTokens \cup {UnknownResetToken}, p \in ResetPasswords :
          (ResetPasswordBegin(FALSE, token, p[1], p[2]) /\ last'.status = "threw") =>
             UNCHANGED <<localStorage, pending, memory>>
     /\ \A i \in DOMAIN pending :
          ResetPasswordEnd(i) =>
            /\ pending[i].token \in passwordResets'.completed
            /\ pending[i].userId \notin DOMAIN localStorage'.password_reset_tokens
            /\ \A k \in DOMAIN getStoredUsers(localStorage') :
                 getStoredUsers(localStorage')[k].id = pending[i].userId =>
                   IsPasswordOf(pending[i].newPassword, getStoredUsers(localStorage')[k])]_vars

\* the newer of two tokens of a user, used in the last moment of its 24
\* hours, has changed the password and is consumed
C18_Witness ==
  /\ last.op = "resetPassword" /\ last.status = "returned"
  /\ Len(getStoredUsers(localStorage)) = 1
  /\ Len(passwordResets.sent) = 2
  /\ passwordResets.sent[1].token.userId = passwordResets.sent[2].token.userId
  /\ passwordResets.completed = {passwordResets.sent[2].token}
  /\ now = passwordResets.sent[2].at + 24 * 60 * MINUTE
  /\ IsPasswordOf(PwdTwo, getStoredUsers(localStorage)[1])
  /\ localStorage.password_reset_tokens = EmptyMap

\* a stored user has this email, ignoring case
Registered(email) ==
  \E k \in DOMAIN getStoredUsers(localStorage) :
    toLowerCase(getStoredUsers(localStorage)[k].email) = toLowerCase(email)

\* C19: requestPasswordReset returns true for every email.  For an email
\* with no stored user nothing changes and nothing is emitted; for a stored
\* user one new token, valid for 24 hours, replaces whatever request the
\* user had, and user.password.reset.requested is emitted once.
C19_ResetRequestAlwaysSucceeds ==
  [][\A email \in ResetEmails :
       RequestPasswordReset(FALSE, email) =>
         /\ last' = Returned("requestPasswordReset", Some(TRUE))
         /\ UNCHANGED <<memory, loginAttempts, pending, now>>
         /\ IF ~Registered(email)
              THEN /\ UNCHANGED <<localStorage, nextId, passwordResets>>
                   /\ emitted' = <<>>
                   /\ audit' = <<>>
              ELSE LET user == CHOOSE u \in {getStoredUsers(localStorage)[k] :
                                               k \in DOMAIN getStoredUsers(localStorage)} :
                                 toLowerCase(u.email) = toLowerCase(email)
                       requests == localStorage.password_reset_tokens
                       stored == localStorage'.password_reset_tokens
                   IN /\ DOMAIN stored = DOMAIN requests \cup {user.id}
                      /\ \A u \in DOMAIN requests \ {user.id} : stored[u] = requests[u]
                      /\ stored[user.id].token \notin SentResetTokens
                      /\ stored[user.id].token.userId = user.id
                      /\ stored[user.id].expiresAt = now + 24 * 60 * MINUTE
                      /\ localStorage' =
                           [localStorage EXCEPT !.password_reset_tokens = stored]
                      /\ emitted' = <<[event |-> "user.password.reset.requested",
                                       data |-> [userId |-> user.id, email |-> email]]>>]_vars

\* a request for an email nobody has, made when a user is stored: it
\* returned true and did nothing
C19_Witness ==
  /\ last.op = "requestPasswordReset" /\ last.value = Some(TRUE)
  /\ Len(getStoredUsers(localStorage)) > 0
  /\ ~Registered(EmailB)
  /\ emitted = <<>>
  /\ audit = <<>>

\* a stored user has this id
HasUserRecord(userId) ==
  \E k \in DOMAIN getStoredUsers(localStorage) : getStoredUsers(localStorage)[k].id = userId

\* the cases in which verifyEmail is to fail: no token stored for the id,
\* another token value, a token past its expiry, no user record for the id
VerificationRejected(userId, token) ==
  \/ userId \notin DOMAIN localStorage.email_verification_tokens
  \/ localStorage.email_verification_tokens[userId].token # token
  \/ now > localStorage.email_verification_tokens[userId].expiresAt
  \/ ~HasUserRecord(userId)

\* C20: verifyEmail fails silently.  For an unknown userId, a token that does
\* not match, an expired token or a missing user record it returns false,
\* throws nothing, emits no event, writes no audit record and leaves
\* localStorage (user store, verification tokens) and the session unchanged.
C20_VerifyEmailFailsSilently ==
  [][\A userId \in VerifyUserIds, token \in VerifyTokens :
       (VerifyEmail(FALSE, userId, token) /\ VerificationRejected(userId, token)) =>
         /\ last' = Returned("verifyEmail", Some(FALSE))
         /\ emitted' = <<>>
         /\ audit' = <<>>
         /\ UNCHANGED <<localStorage, memory, loginAttempts, pending>>]_vars

\* verifyEmail has returned false with a session installed, while every stored
\* token is past its expiry or belongs to a user whose record is gone
C20_Witness ==
  /\ last.op = "verifyEmail" /\ last.status = "returned"
  /\ last.value = Some(FALSE)
  /\ IsSome(currentUser)
  /\ localStorage.email_verification_tokens # EmptyMap
  /\ \A u \in DOMAIN localStorage.email_verification_tokens :
       \/ now > localStorage.email_verification_tokens[u].expiresAt
       \/ ~HasUserRecord(u)
  /\ \E u \in DOMAIN localStorage.email_verification_tokens : ~HasUserRecord(u)
  /\ \E u \in DOMAIN localStorage.email_verification_tokens :
       now > localStorage.email_verification_tokens[u].expiresAt

\* the stored record with this id
UserRecord(ls, userId) ==
  CHOOSE u \in {getStoredUsers(ls)[k] : k \in DOMAIN getStoredUsers(ls)} : u.id = userId

\* C21: a successful verifyEmail(userId, token) returns true, sets verified on
\* the stored record and changes no other record, sets verified on the
\* in-memory and the persisted Session user when userId is the active user
\* and leaves the Session as it was otherwise, deletes the verification token
\* (so the same call made again is rejected), and emits user.email.verified
\* once.
C21_VerifyEmailSuccess ==
  [][\A userId \in VerifyUserIds, token \in VerifyTokens :
       (VerifyEmail(FALSE, userId, token) /\ ~VerificationRejected(userId, token)) =>
         LET users == getStoredUsers(localStorage)
             active == IsSome(currentUser) /\ Get(currentUser).id = userId
         IN /\ last' = Returned("verifyEmail", Some(TRUE))
            /\ Len(getStoredUsers(localStorage')) = Len(users)
            /\ \A k \in DOMAIN users :
                 IF users[k].id = userId
                   THEN getStoredUsers(localStorage')[k] =
                          [users[k] EXCEPT !.verified = TRUE, !.updatedAt = now]
                   ELSE getStoredUsers(localStorage')[k] = users[k]
            /\ IF active
                 THEN /\ currentUser' = Some([Get(currentUser) EXCEPT !.verified = TRUE])
                      /\ localStorage'.wantok_user = currentUser'
                 ELSE /\ UNCHANGED currentUser
                      /\ localStorage'.wantok_user = localStorage.wantok_user
            /\ UNCHANGED <<accessToken, refreshToken, tokenExpiresAt>>
            /\ localStorage'.wantok_auth_token = localStorage.wantok_auth_token
            /\ localStorage'.wantok_refresh_token = localStorage.wantok_refresh_token
            /\ localStorage'.wantok_token_expires = localStorage.wantok_token_expires
            /\ userId \notin DOMAIN localStorage'.email_verification_tokens
            /\ \A u \in DOMAIN localStorage.email_verification_tokens \ {userId} :
                 /\ u \in DOMAIN localStorage'.email_verification_tokens
                 /\ localStorage'.email_verification_tokens[u] =
                      localStorage.email_verification_tokens[u]
            /\ emitted' = <<Event("user.email.verified",
                              [userId |-> userId, email |-> UserRecord(localStorage, userId).email])>>]_vars

\* the active user has verified the email: the record, the Session user in
\* memory and the persisted one are verified, and the token is gone
C21_Witness ==
  /\ last.op = "verifyEmail" /\ last.status = "returned"
  /\ last.value = Some(TRUE)
  /\ IsSome(currentUser)
  /\ Get(currentUser).verified
  /\ localStorage.wantok_user = currentUser
  /\ HasUserRecord(Get(currentUser).id)
  /\ UserRecord(localStorage, Get(currentUser).id).verified
  /\ Get(currentUser).id \notin DOMAIN localStorage.email_verification_tokens
  /\ emitted # <<>>

\* C22: updateProfile(userId, updates) throws Unauthorized whenever there is
\* no authenticated Session or the Session belongs to another user; the
\* call then changes no record and nothing of the Session, emits
\* user.profile.update.failed only, and writes no audit record.
C22_UpdateProfileUnauthorized ==
  [][\A userId \in ProfileUserIds, updates \in ProfileUpdateInputs :
       (/\ UpdateProfile(FALSE, userId, updates)
        /\ (~isAuthenticated \/ Get(currentUser).id # userId)) =>
         /\ last' = Threw("updateProfile", "Unauthorized")
         /\ UNCHANGED <<localStorage, memory>>
         /\ \A k \in DOMAIN emitted' : emitted'[k].event # "user.profile.updated"
         /\ emitted' = <<Event("user.profile.update.failed", [error |-> "Unauthorized"])>>
         /\ audit' = <<>>]_vars

\* the holder of a valid Session has asked to update the record of the other
\* registered user and was refused
C22_Witness ==
  /\ last.op = "updateProfile" /\ last.status = "threw"
  /\ last.error = "Unauthorized"
  /\ isAuthenticated
  /\ Len(getStoredUsers(localStorage)) = 2
  /\ \A k \in DOMAIN getStoredUsers(localStorage) :
       getStoredUsers(localStorage)[k].firstName = None

\* the fields updateProfile may write
WritableFields == {allowedFields[k] : k \in DOMAIN allowedFields} \cup {"updatedAt"}

\* the fields the claim names as protected, as far as the Session user has them
ProtectedSessionFields == {"id", "email", "role", "verified"}

\* what every successful updateProfile does to the store: the record of
\* userId differs in writable fields only, the other records are as before
UpdateProfileStoreFrame(userId) ==
  LET users == getStoredUsers(localStorage)
      updated == getStoredUsers(localStorage')
  IN /\ Len(updated) = Len(users)
     /\ \A k \in DOMAIN users :
          IF users[k].id = userId
            THEN /\ DOMAIN updated[k] = DOMAIN users[k]
                 /\ \A f \in DOMAIN users[k] \ WritableFields : updated[k][f] = users[k][f]
            ELSE updated[k] = users[k]

\* C23 as stated: a successful updateProfile leaves id, email, role,
\* verification flag and password hash as they were, in the store and in the
\* Session.
C23_UpdateProfileKeepsProtectedFields ==
  [][\A userId \in ProfileUserIds, updates \in ProfileUpdateInputs :
       (UpdateProfile(FALSE, userId, updates) /\ last'.status = "returned") =>
         /\ UpdateProfileStoreFrame(userId)
         /\ \A f \in ProtectedSessionFields : Get(currentUser')[f] = Get(currentUser)[f]]_vars

\* C23 (amended): a successful updateProfile changes only allow-listed fields
\* and updatedAt of the stored record of userId, whatever the updates object
\* names, and no other record; the Session user, in memory and persisted,
\* becomes the sanitized stored record and the tokens stay.  So the
\* protected fields of the Session are those of the store after the call,
\* which are the Session's own from before only if the Session agreed with
\* the store.
C23_UpdateProfileFrame ==
  [][\A userId \in ProfileUserIds, updates \in ProfileUpdateInputs :
       (UpdateProfile(FALSE, userId, updates) /\ last'.status = "returned") =>
         /\ UpdateProfileStoreFrame(userId)
         /\ currentUser' = Some(sanitizeUser(UserRecord(localStorage', userId)))
         /\ localStorage'.wantok_user = currentUser'
         /\ last'.value = currentUser'
         /\ UNCHANGED <<accessToken, refreshToken, tokenExpiresAt>>
         /\ \A f \in ProtectedSessionFields :
              (Get(currentUser)[f] = UserRecord(localStorage, userId)[f]) =>
                Get(currentUser')[f] = Get(currentUser)[f]]_vars

\* the first registrant has sent the hostile updates object: name and phone
\* are set, and email, role, verification flag and password are the old ones
C23_Witness ==
  /\ last.op = "updateProfile" /\ last.status = "returned"
  /\ IsSome(currentUser)
  /\ Get(currentUser).firstName = Some("Eve")
  /\ Get(currentUser).phoneNumber = Some("7")
  /\ Get(currentUser).email = EmailA
  /\ Get(currentUser).role = ROLE_INDIVIDUAL
  /\ ~Get(currentUser).verified
  /\ HasUserRecord(Get(currentUser).id)
  /\ IsPasswordOf(PwdOne, UserRecord(localStorage, Get(currentUser).id))
  /\ sanitizeUser(UserRecord(localStorage, Get(currentUser).id)) = Get(currentUser)

\* what a successful register does apart from the verification token: one
\* record more, unverified, with the role asked for or individual; an
\* authenticated Session for it; the sanitized record and the access token
\* returned; user.registered emitted once
RegisterEndEffects(call) ==
  LET users == getStoredUsers(localStorage)
      updated == getStoredUsers(localStorage')
      record == updated[Len(updated)]
  IN /\ Len(updated) = Len(users) + 1
     /\ \A k \in DOMAIN users : updated[k] = users[k]
     /\ record.id = call.userId
     /\ record.email = call.payload.email
     /\ ~record.verified
     /\ record.role = (IF IsSome(call.payload.role) THEN Get(call.payload.role)
                                                     ELSE ROLE_INDIVIDUAL)
     /\ IsPasswordOf(call.payload.password, record)
     /\ isAuthenticated'
     /\ currentUser' = Some(sanitizeUser(record))
     /\ localStorage'.wantok_user = currentUser'
     /\ last'.op = "register" /\ last'.status = "returned"
     /\ Get(last'.value).user = sanitizeUser(record)
     /\ Some(Get(last'.value).accessToken) = accessToken'
     /\ emitted' = <<Event("user.registered",
                       [userId |-> call.userId, email |-> call.payload.email])>>

\* C24: a successful register creates exactly one record (unverified, role
\* individual unless given), installs an authenticated Session for the new
\* user, issues a verification token for that user, returns the sanitized
\* record with an access token and emits user.registered exactly once.
C24_RegisterSuccess ==
  [][\A i \in DOMAIN pending :
       RegisterEnd(i) =>
         /\ RegisterEndEffects(pending[i])
         /\ pending[i].userId \in DOMAIN localStorage'.email_verification_tokens
         /\ localStorage'.email_verification_tokens[pending[i].userId].expiresAt =
              now + 48 * 60 * MINUTE]_vars

\* the events the catch blocks emit
FailedEvents ==
  {"auth.registration.failed", "auth.login.failed", "auth.password.reset.request.failed",
   "auth.password.reset.failed", "auth.token.refresh.failed", "user.profile.update.failed"}

\* the call the step reports has failed: it threw, or it is a verifyEmail
\* that returned false, or a refreshAccessToken that rejected the refresh
\* token of the Session it was called with
FailedCall(l, b) ==
  \/ l.status = "threw"
  \/ l.op = "verifyEmail" /\ l.status = "returned" /\ l.value = Some(FALSE)
  \/ /\ l.op = "refreshAccessToken" /\ l.status = "returned" /\ l.value = None
     /\ IsSome(b.refreshToken) /\ IsSome(b.currentUser)

\* C25: every failed call of every operation emits a *.failed event carrying
\* the error, exactly once, and no success event.
C25_EveryFailureEmitsFailed ==
  [][FailedCall(last', before') =>
       /\ Len(emitted') = 1
       /\ emitted'[1].event \in FailedEvents
       /\ "error" \in DOMAIN emitted'[1].data
       /\ (last'.status = "threw") => (emitted'[1].data.error = last'.error)]_vars

\* a Session exists and its access token has expired or expires within the
\* next five minutes
SessionDueForRefresh ==
  /\ IsSome(currentUser)
  /\ IsSome(accessToken)
  /\ IsSome(tokenExpiresAt)
  /\ now > Get(tokenExpiresAt) - 5 * MINUTE

\* refreshAccessToken has run on a Session: it has issued a new access token
\* or has logged the user out
RefreshInvoked ==
  \E k \in DOMAIN emitted' : emitted'[k].event \in {"auth.token.refreshed", "user.loggedout"}

\* C26: at every run of the background check, refreshAccessToken is invoked
\* if a Session exists whose access token has expired or expires within
\* five minutes; otherwise the check changes nothing.
C26_CheckRefreshesDueSession ==
  [][CheckTokenExpiration =>
       IF SessionDueForRefresh
         THEN RefreshInvoked
         ELSE /\ UNCHANGED <<memory, localStorage>>
              /\ emitted' = <<>>]_vars

\* a Session is in memory and its refresh token has not expired
SessionRefreshable ==
  /\ IsSome(currentUser)
  /\ IsSome(refreshToken)
  /\ now < Get(decodeToken(Get(refreshToken))).exp * TicksPerSecond

\* a user is in memory with no valid access token
SessionExpired == IsSome(currentUser) /\ ~isTokenValid

\* C27: while the background check runs every 60 seconds, a Session whose
\* refresh token has not expired is authenticated at every instant (the
\* access token is refreshed before it expires), and a Session whose access
\* token has expired is eventually refreshed or logged out.
C27_SessionKeptAlive ==
  /\ [](SessionRefreshable => isAuthenticated)
  /\ (SessionExpired ~> (isAuthenticated \/ ~IsSome(currentUser)))

\* the Session keys of localStorage hold nothing
NothingPersisted ==
  \A key \in SessionKeys : localStorage[key] = None

\* C28: at a page load, a persisted access token that has not expired gives
\* an authenticated Session with the persisted user and token; an expired
\* one with a refresh token goes through refresh (authenticated with a new
\* access token if the refresh token is still good, logged out with the
\* persisted Session removed otherwise); in every other case (user, token
\* or expiry missing; expired token and no refresh token) the service is
\* unauthenticated and has no Session.
C28_HydrationAtStart ==
  [][\A d \in RestartDowntimes :
       Restart(d) =>
         LET ls == localStorage
             t == now + d
             complete == /\ IsSome(ls.wantok_user) /\ IsSome(ls.wantok_auth_token)
                         /\ IsSome(ls.wantok_token_expires)
             fresh == complete /\ t < Get(ls.wantok_token_expires)
             refreshable ==
               /\ complete /\ ~fresh /\ IsSome(ls.wantok_refresh_token)
               /\ t < Get(ls.wantok_refresh_token).payload.exp * TicksPerSecond
         IN IF fresh
              THEN /\ isAuthenticated'
                   /\ currentUser' = ls.wantok_user
                   /\ accessToken' = ls.wantok_auth_token
                   /\ refreshToken' = ls.wantok_refresh_token
                   /\ tokenExpiresAt' = ls.wantok_token_expires
                   /\ UNCHANGED localStorage
                   /\ emitted' = <<>>
            ELSE IF refreshable
              THEN /\ isAuthenticated'
                   /\ currentUser' = ls.wantok_user
                   /\ accessToken' # ls.wantok_auth_token
                   /\ refreshToken' = ls.wantok_refresh_token
                   /\ tokenExpiresAt' = Some(t + 60 * MINUTE)
                   /\ localStorage'.wantok_auth_token = accessToken'
                   /\ localStorage'.wantok_token_expires = tokenExpiresAt'
                   /\ emitted' = <<Event("auth.token.refreshed",
                                     [userId |-> Get(ls.wantok_user).id])>>
            ELSE /\ ~isAuthenticated'
                 /\ memory' = <<None, None, None, None>>
                 /\ complete => /\ NothingPersisted'
                                /\ emitted' = <<LoggedOutEvent(Get(ls.wantok_user))>>
                 /\ ~complete => (UNCHANGED localStorage /\ emitted' = <<>>)]_vars

\* the page was loaded with an expired access token and a good refresh
\* token: the Session is authenticated with a new access token
C28_Witness ==
  /\ last.op = "constructor"
  /\ Len(emitted) = 1
  /\ emitted[1].event = "auth.token.refreshed"
  /\ isAuthenticated
  /\ localStorage.wantok_auth_token = accessToken
  /\ now >= ACCESS_TOKEN_EXPIRY

\* the callbacks subscribed to an event, in subscription order
Subscribed(event) ==
  IF event \in DOMAIN bus.listeners THEN bus.listeners[event] ELSE <<>>

\* C29: emit(event, data) calls every callback subscribed to the event, once
\* for each subscription and in subscription order, also those after a
\* callback that throws, calls no callback of another event, and returns
\* normally.  What it calls beyond the subscriptions it found are callbacks
\* subscribed to the event by a listener during this emit.
C29_EmitDeliversToAll ==
  [][\A event \in BusEvents :
       Emit(event) =>
         /\ ~bus'.threw
         /\ Len(bus'.delivered) >= Len(Subscribed(event))
         /\ \A k \in DOMAIN Subscribed(event) : bus'.delivered[k] = Subscribed(event)[k]
         /\ \A k \in DOMAIN bus'.delivered :
              k > Len(Subscribed(event)) => bus'.delivered[k] = "late"]_vars

\* C29 as the specification words it: what C29_EmitDeliversToAll says, and every
\* callback subscribed to the event is called exactly once by the emit
C29_EmitDeliversExactlyOnce ==
  [][\A event \in BusEvents :
       Emit(event) =>
         /\ ~bus'.threw
         /\ Len(bus'.delivered) >= Len(Subscribed(event))
         /\ \A k \in DOMAIN Subscribed(event) :
              /\ bus'.delivered[k] = Subscribed(event)[k]
              /\ Cardinality({j \in DOMAIN bus'.delivered :
                                bus'.delivered[j] = Subscribed(event)[k]}) = 1]_vars

\* an emit has called a throwing callback first and two more after it
C29_Witness ==
  /\ bus.op = "emit"
  /\ ~bus.threw
  /\ Len(bus.delivered) = 3
  /\ bus.delivered[1] = "throwing"
  /\ bus.delivered[2] = "plain"
  /\ bus.delivered[3] = "once"

\* the ids of the stored user records a step has written or added
ChangedUserIds ==
  LET old == getStoredUsers(localStorage)
      new == getStoredUsers(localStorage')
  IN {new[k].id : k \in {j \in DOMAIN new : \A i \in DOMAIN old : old[i] # new[j]}}

\* logAction was called once by the step, with this user id
LoggedOnceFor(userId) == Len(audit') = 1 /\ audit'[1].userId = userId

\* logAction was called once by the step, with the id of a stored user, and
\* the step has written the record of no other user
LoggedOnceForWritten ==
  /\ Len(audit') = 1
  /\ \E k \in DOMAIN getStoredUsers(localStorage') :
       getStoredUsers(localStorage')[k].id = audit'[1].userId
  /\ ChangedUserIds \subseteq {audit'[1].userId}

\* logAction was called once by the step, with the id of a stored user whose
\* reset token the step has used up
LoggedOnceForReset ==
  /\ Len(audit') = 1
  /\ \E k \in DOMAIN getStoredUsers(localStorage') :
       getStoredUsers(localStorage')[k].id = audit'[1].userId
  /\ \E token \in passwordResets'.completed : token.userId = audit'[1].userId
  /\ audit'[1].userId \notin DOMAIN localStorage'.password_reset_tokens

\* what a call that has returned has logged: once the user it has registered,
\* logged in, logged out, refreshed, mailed a reset token to, or whose record
\* it has written, and nothing when it had nothing to do; what a refresh
\* does when it returns null is given by the argument
AuditOfReturnedCall(refreshFailedLogs) ==
  CASE last'.op \in {"register", "login"} ->
         LoggedOnceFor(Get(last'.value).user.id)
    [] last'.op = "logout" ->
         IF IsSome(currentUser)
           THEN LoggedOnceFor(Get(currentUser).id)
           ELSE audit' = <<>>
    [] last'.op = "refreshAccessToken" ->
         IF IsSome(last'.value)
           THEN LoggedOnceFor(Get(last'.value).user.id) /\ currentUser' = currentUser
         ELSE IF refreshFailedLogs /\ IsSome(refreshToken) /\ IsSome(currentUser)
           THEN LoggedOnceFor(Get(currentUser).id) /\ ~IsSome(currentUser')
           ELSE audit' = <<>>
    [] last'.op = "requestPasswordReset" ->
         IF passwordResets'.sent # passwordResets.sent
           THEN LoggedOnceFor(passwordResets'.sent[Len(passwordResets'.sent)].token.userId)
           ELSE audit' = <<>> /\ localStorage' = localStorage
    [] last'.op = "resetPassword" -> LoggedOnceForReset
    [] last'.op = "verifyEmail" ->
         IF last'.value = Some(TRUE)
           THEN LoggedOnceForWritten
           ELSE audit' = <<>> /\ localStorage' = localStorage
    [] last'.op = "updateProfile" ->
         LoggedOnceFor(Get(last'.value).id)
    [] OTHER -> FALSE

\* what a step that is no returning call has logged: nothing when the call
\* throws or is suspended, at most the Session user when the timer or the
\* constructor refreshes or logs out
AuditOfOtherStep ==
  IF last'.status \in {"threw", "awaiting"}
    THEN audit' = <<>>
    ELSE audit' # <<>> => IsSome(currentUser) /\ LoggedOnceFor(Get(currentUser).id)

\* C30: logAction is called exactly once, with the id of the affected user,
\* by every register, login, logout, refresh, password-reset request for an
\* existing user, resetPassword, verifyEmail and updateProfile that succeeds,
\* and not at all by a call that throws, is suspended or has nothing to do.
\* A refresh that fails because the refresh token has expired logs the
\* Session out and that logout is logged once, for the Session user.
C30_AuditOncePerSuccess ==
  [][IF last'.status = "returned"
       THEN AuditOfReturnedCall(TRUE)
       ELSE AuditOfOtherStep]_vars

\* C30 as the specification words it: a refresh that fails logs nothing
C30_AuditOnlyOnSuccess ==
  [][IF last'.status = "returned"
       THEN AuditOfReturnedCall(FALSE)
       ELSE AuditOfOtherStep]_vars

\* a refresh has found the refresh token expired, has logged the Session out
\* and has logged that once
C30_Witness ==
  /\ last.op = "refreshAccessToken"
  /\ last.status = "returned"
  /\ ~IsSome(last.value)
  /\ ~IsSome(currentUser)
  /\ IsSome(before.currentUser)
  /\ audit = <<logAction(Get(before.currentUser).id, "logout")>>

\* a record without a password field
NoPassword(record) == "password" \notin DOMAIN record

\* C31: the in-memory Session user, the persisted Session user, the user of
\* the AuthResponse that register, login and refreshAccessToken return, the
\* record that updateProfile returns and the payload of every emitted event
\* have no password field.
C31_PasswordNeverExposed ==
  /\ IsSome(currentUser) => NoPassword(Get(currentUser))
  /\ IsSome(localStorage.wantok_user) => NoPassword(Get(localStorage.wantok_user))
  /\ \A k \in DOMAIN emitted : NoPassword(emitted[k].data)
  /\ last.status = "returned" /\ IsSome(last.value) =>
       /\ last.op \in {"register", "login", "refreshAccessToken"} =>
            NoPassword(Get(last.value).user)
       /\ last.op = "updateProfile" => NoPassword(Get(last.value))

\* updateProfile has returned the record of the Session user, whose stored
\* record holds the password hash
C31_Witness ==
  /\ last.op = "updateProfile"
  /\ last.status = "returned"
  /\ IsSome(currentUser)
  /\ Get(last.value).id = Get(currentUser).id
  /\ IsSome(localStorage.wantok_user)
  /\ emitted # <<>>
  /\ \E k \in DOMAIN getStoredUsers(localStorage) :
       /\ getStoredUsers(localStorage)[k].id = Get(currentUser).id
       /\ ~NoPassword(getStoredUsers(localStorage)[k])

\* the step completes a login that was called with rememberMe
CompletesExtendedLogin ==
  /\ last'.op = "login"
  /\ last'.status = "returned"
  /\ \E i \in DOMAIN pending :
       /\ pending[i].op = "login"
       /\ pending[i].rememberMe
       /\ pending' = RemoveAt(pending, i)

\* the lifetime the refresh token of the step is to have
RefreshLifetime ==
  IF CompletesExtendedLogin THEN REMEMBER_ME_EXPIRY ELSE REFRESH_TOKEN_EXPIRY

\* the instant from which the Session's refresh token is refused
RefreshTokenExpiry(token) == Get(decodeToken(token)).exp * TicksPerSecond

\* the step installs a new access token, a new refresh token
IssuesAccessToken == IsSome(accessToken') /\ accessToken' # accessToken
IssuesRefreshToken == IsSome(refreshToken') /\ refreshToken' # refreshToken

\* C32 as the specification words it: every access token issued at time t
\* expires at t + 1 hour and every refresh token at t + 7 days, or at
\* t + 30 days when it is issued by a login with rememberMe, and
\* 1 hour < 7 days < 30 days.
C32_TokenLifetimesExact ==
  [][/\ ACCESS_TOKEN_EXPIRY < REFRESH_TOKEN_EXPIRY
     /\ REFRESH_TOKEN_EXPIRY < REMEMBER_ME_EXPIRY
     /\ IssuesAccessToken => Get(tokenExpiresAt') = now' + ACCESS_TOKEN_EXPIRY
     /\ IssuesRefreshToken =>
          RefreshTokenExpiry(Get(refreshToken')) = now' + RefreshLifetime]_vars

\* C32: every access token issued at time t expires at t + 1 hour; every
\* refresh token expires at the last whole second not after t + 7 days, or
\* not after t + 30 days when it is issued by a login with rememberMe, and by
\* no other operation; 1 hour < 7 days < 30 days, and the access token
\* expires before the refresh token issued with it.
C32_TokenLifetimes ==
  [][/\ ACCESS_TOKEN_EXPIRY < REFRESH_TOKEN_EXPIRY
     /\ REFRESH_TOKEN_EXPIRY < REMEMBER_ME_EXPIRY
     /\ IssuesAccessToken => Get(tokenExpiresAt') = now' + ACCESS_TOKEN_EXPIRY
     /\ IssuesRefreshToken =>
          LET expiry == RefreshTokenExpiry(Get(refreshToken'))
          IN /\ IssuesAccessToken
             /\ expiry = floorSeconds(now' + RefreshLifetime) * TicksPerSecond
             /\ expiry <= now' + RefreshLifetime
             /\ expiry > now' + RefreshLifetime - SECOND
             /\ Get(tokenExpiresAt') < expiry]_vars

\* a login with rememberMe has issued a refresh token at an instant that is
\* no whole second
C32_Witness ==
  /\ last.op = "login"
  /\ last.status = "returned"
  /\ now % TicksPerSecond # 0
  /\ IsSome(refreshToken)
  /\ refreshToken = Get(last.value).refreshToken
  /\ RefreshTokenExpiry(Get(refreshToken)) = now + REMEMBER_ME_EXPIRY - 1
  /\ tokenExpiresAt = Some(now + ACCESS_TOKEN_EXPIRY)

\* the stored users a login with this email is a login for
UsersWithEmail(email) ==
  {getStoredUsers(localStorage)[k] : k \in
     {j \in DOMAIN getStoredUsers(localStorage) :
        toLowerCase(getStoredUsers(localStorage)[j].email) = toLowerCase(email)}}

\* what the completion of a login for user u is to be
LoginOutcomeFor(call, u) ==
  IF call.password = passwordOf[u.id]
    THEN /\ last'.status = "returned"
         /\ Get(last'.value).user.id = u.id
    ELSE last' = Threw("login", MSG_INVALID_CREDENTIALS)

\* C33: a login that was not rate-limited, for a user whose password was last
\* set to p by register or by a successful resetPassword, succeeds when it is
\* made with p and fails with "Invalid email or password" when it is made
\* with any other password, the one valid before a reset included.
C33_LoginChecksLastPassword ==
  [][\A i \in DOMAIN pending :
       LoginEnd(i) =>
         \A u \in UsersWithEmail(pending[i].email) :
           u.id \in DOMAIN passwordOf => LoginOutcomeFor(pending[i], u)]_vars

\* the limiter's entries for the identity of email: the keys equal to it
\* ignoring case
IdentityKeys(email) ==
  {e \in DOMAIN loginAttempts : toLowerCase(e) = toLowerCase(email)}

RECURSIVE SumOfCounts(_)
SumOfCounts(keys) ==
  IF keys = {} THEN 0
  ELSE LET e == CHOOSE k \in keys : TRUE
       IN loginAttempts[e].count + SumOfCounts(keys \ {e})

\* the failed logins recorded against the identity of email number five or
\* more and the last of them is less than the lockout window old
IdentityLockedOut(email) ==
  /\ SumOfCounts(IdentityKeys(email)) >= MAX_LOGIN_ATTEMPTS
  /\ \E e \in IdentityKeys(email) : now - loginAttempts[e].lastAttempt < LOCKOUT_DURATION

\* C34: the limiter counts per identity, the email compared ignoring case: a
\* login against an account for which five failed logins are recorded, the
\* last less than 15 minutes ago, is rate-limited in whatever letter case
\* the email is typed, and failures typed in different cases are counted in
\* one counter.
C34_LockoutPerIdentity ==
  [][\A c \in IdentityLogins :
       LoginBeginOf(c) =>
         /\ IdentityLockedOut(c.email) => ThrewRateLimited(last')
         /\ Cardinality(IdentityKeys(c.email)) <= 1]_vars

(***************************************************************************)
(* Events and the state they announce                                      *)
(***************************************************************************)
SessionEvents ==
  {"user.registered", "user.loggedin", "auth.token.refreshed", "user.profile.updated"}

\* the listener of the k-th event of a step finds the Session the step leaves
SeesNewSession(k) ==
  /\ observed'[k] = Observation(currentUser', localStorage')
  /\ IsSome(observed'[k].currentUser)
  /\ Get(observed'[k].currentUser).id = emitted'[k].data.userId
  /\ observed'[k].wantok_user = observed'[k].currentUser
  /\ observed'[k].wantok_auth_token = accessToken'
  /\ observed'[k].wantok_token_expires = tokenExpiresAt'
  /\ IsSome(accessToken')

\* the listener of the k-th event of a step finds no Session
SeesNoSession(k) ==
  observed'[k] = Observation(None, logoutStorage(localStorage'))

\* C35: when user.registered, user.loggedin, auth.token.refreshed or
\* user.profile.updated is delivered, getCurrentUser() and the persisted
\* session already hold the new Session; when user.loggedout is delivered,
\* getCurrentUser() is null and the persisted session is cleared.
C35_EventsAfterStateChange ==
  [][/\ Len(observed') = Len(emitted')
     /\ \A k \in DOMAIN emitted' :
          /\ emitted'[k].event \in SessionEvents => SeesNewSession(k)
          /\ emitted'[k].event = "user.loggedout" => SeesNoSession(k)]_vars

\* a logout of a logged-in user has announced itself
C35_Witness ==
  /\ Len(emitted) = 1
  /\ emitted[1].event = "user.loggedout"
  /\ observed[1].currentUser = None
  /\ currentUser = None
  /\ IsSome(before.currentUser)

(***************************************************************************)
(* The persisted session and the Session in memory                         *)
(***************************************************************************)
\* the Session in memory
MemorySession ==
  [currentUser |-> currentUser, accessToken |-> accessToken,
   refreshToken |-> refreshToken, tokenExpiresAt |-> tokenExpiresAt]

\* the Session read from the four Session entries of localStorage
PersistedSession ==
  [currentUser |-> localStorage.wantok_user,
   accessToken |-> localStorage.wantok_auth_token,
   refreshToken |-> localStorage.wantok_refresh_token,
   tokenExpiresAt |-> localStorage.wantok_token_expires]

\* the persisted session equals the Session in memory: four equal entries
\* with a Session, four absent entries without
PersistedEqualsMemory ==
  /\ PersistedSession = MemorySession
  /\ ~IsSome(currentUser) => PersistedSession = NoSession

\* the page is loaded again right after a call has completed and finds the
\* Session that was in memory
RehydratesSame ==
  /\ last.status \in {"returned", "threw"}
  /\ last' = Internal("constructor")
  => MemorySession' = MemorySession

\* C36 as stated: after every completed operation the persisted session
\* equals the Session in memory, and loading the page again at that moment
\* rehydrates the same Session.
C36_RestartRehydratesSame ==
  /\ []PersistedEqualsMemory
  /\ [][RehydratesSame]_vars

\* C36: after every completed operation the persisted session equals the
\* Session in memory (all four entries equal with a Session, all absent
\* without), and loading the page again at that moment rehydrates the same
\* Session when its access token has not expired.
C36_PersistedEqualsMemory ==
  /\ []PersistedEqualsMemory
  /\ [][(IsSome(tokenExpiresAt) => now' < Get(tokenExpiresAt)) => RehydratesSame]_vars

\* the page was loaded again and found a Session with a fresh token as it was
C36_Witness ==
  /\ last = Internal("constructor")
  /\ IsSome(currentUser)
  /\ HoldsValidToken
  /\ audit = <<>>
  /\ PersistedSession = MemorySession

(***************************************************************************)
(* Failing calls                                                           *)
(***************************************************************************)
\* the step is a register, login, resetPassword or updateProfile that throws
FailingCalls == {"register", "login", "resetPassword", "updateProfile"}

CallFails == last'.status = "threw" /\ last'.op \in FailingCalls

\* C37: a failing register, login, resetPassword or updateProfile leaves the
\* user store, the reset and verification token tables and the Session, in
\* memory and persisted, exactly as before; a failed login changes only the
\* attempt counter, and so leaves another user's active Session alone.
C37_FailureLeavesStateAsBefore ==
  [][CallFails =>
       /\ localStorage' = localStorage
       /\ MemorySession' = MemorySession
       /\ last'.op # "login" => loginAttempts' = loginAttempts]_vars

\* a login for one user has failed while another user holds the Session
C37_Witness ==
  /\ last.op = "login" /\ last.status = "threw"
  /\ IsSome(currentUser)
  /\ Len(emitted) = 1
  /\ emitted[1].event = "auth.login.failed"
  /\ emitted[1].data.email # Get(currentUser).email
  /\ findUserByEmail(localStorage, emitted[1].data.email) # None

(***************************************************************************)
(* The two expiries of a Session                                           *)
(***************************************************************************)
\* the refresh token in memory has expired
RefreshTokenExpired ==
  IsSome(refreshToken) /\ now >= RefreshTokenExpiry(Get(refreshToken))

\* C38: in every state with a Session the access token expires no later
\* than the refresh token, so the client is never authenticated while its
\* refresh token has already expired.
C38_AccessExpiresBeforeRefresh ==
  IsSome(currentUser) /\ IsSome(tokenExpiresAt) /\ IsSome(refreshToken)
  => /\ Get(tokenExpiresAt) <= RefreshTokenExpiry(Get(refreshToken))
     /\ ~(isAuthenticated /\ RefreshTokenExpired)

(***************************************************************************)
(* Calls that overlap with logout and with each other                      *)
(***************************************************************************)
\* logout() has just returned while one login or register is suspended at
\* its await, and this step completes that call
CompletesAfterLogout ==
  /\ last = Returned("logout", None)
  /\ Len(pending) = 1
  /\ pending[1].op \in {"login", "register"}
  /\ Len(pending') = 0
  /\ last'.op = pending[1].op

\* the Session in memory and the persisted one belong to one user
SessionOfOneUser ==
  IsSome(currentUser) =>
    /\ PersistedSession = MemorySession
    /\ IsSome(accessToken) /\ IsSome(refreshToken)
    /\ Get(accessToken).payload.userId = Get(currentUser).id
    /\ Get(refreshToken).payload.userId = Get(currentUser).id

\* C39: when logout() is called while a login or register awaits its hash,
\* the system is Unauthenticated after both have completed; of two
\* overlapping logins the Session ends as one consistent Session of a
\* single user.
C39_LogoutDuringLoginWins ==
  /\ [][CompletesAfterLogout => ~IsSome(currentUser') /\ PersistedSession' = NoSession]_vars
  /\ []SessionOfOneUser

(***************************************************************************)
(* The unsubscribe function                                                *)
(***************************************************************************)
\* how many times callback is listed for event
Listed(listeners, event, callback) ==
  IF event \in DOMAIN listeners
    THEN Len(SelectSeq(listeners[event], LAMBDA cb : cb = callback))
    ELSE 0

\* the callbacks ever subscribed or listed
Callbacks ==
  {sub[2] : sub \in bus.handles} \cup {"late"}

\* C40: the function returned by on(event, cb) can be called at any time,
\* any number of times, without raising; afterwards cb is not listed for
\* the event and the other listeners are listed as before; also after
\* off(event) or clear().
C40_UnsubscribeAlwaysSafe ==
  [][\A sub \in bus.handles :
       Unsubscribe(sub[1], sub[2]) =>
         /\ ~bus'.threw
         /\ Listed(bus'.listeners, sub[1], sub[2]) = 0
         /\ \A other \in Callbacks \ {sub[2]}, event \in BusEvents :
              Listed(bus'.listeners, event, other) = Listed(bus.listeners, event, other)
         /\ \A event \in BusEvents \ {sub[1]} :
              Listed(bus'.listeners, event, sub[2]) = Listed(bus.listeners, event, sub[2])]_vars

====
